---- MODULE Spec2Model ----
(***************************************************************************)
(* JavaScript stack-trace deobfuscation (sentry.lang.javascript.processor). *)
(*                                                                         *)
(* Two specifications live in this module:                                 *)
(*   SpecCtx  get_source_context / trim_line applied to bounded inputs     *)
(*   Spec     one processing run of JavaScriptStacktraceProcessor:         *)
(*            preprocess_step, populate_source_cache, process_frame        *)
(*                                                                         *)
(* Text is modelled as sequences of integers (one integer per character),  *)
(* URLs as sequences of tokens, Python's None as the empty tuple and a     *)
(* present optional value v as the 1-tuple <<v>>.                          *)
(***************************************************************************)
EXTENDS Integers, Sequences, FiniteSets, TLC

VARIABLES
    \* ---- get_source_context specification ----
    ctx_in,             \* the arguments (source, lineno, colno) of the call
    ctx_out,            \* what the call produced (return value or exception)
    ctx_pc,             \* "call" before the call, "done" after it
    \* ---- the event being processed ----
    platform,           \* self.data["platform"]
    frames,             \* the frames of the event's stacktraces
    \* ---- JavaScriptStacktraceProcessor ----
    options,            \* the sentry:scrape_javascript option of the organization and of the project
    allow_scraping,     \* self.allow_scraping
    max_fetches,        \* self.max_fetches
    fetch_count,        \* self.fetch_count
    release,            \* self.release
    sourceview_cache,   \* self.sourceview_cache (SourceCache)
    sourcemap_cache,    \* self.sourcemap_cache (SourceMapCache)
    sourcemaps_touched, \* self.sourcemaps_touched
    frame_data,         \* processable_frame.data of every frame
    contains_errors,    \* reading of SourceCache.__contains__ (see SC_Contains)
    \* ---- position of the run ----
    pc,                 \* "new", "priming", "process" or "aborted"
    pending,            \* populate_source_cache: pending_file_list still to do
    \* ---- history ----
    fetch_log,          \* url -> number of fetch_file / fetch_sourcemap calls
    requested,          \* urls handed to cache_source so far
    cs_trace,           \* the cache_source calls made by the last step
    calls,              \* the process_frame calls so far, with their results
    \* ---- discover_sourcemap as a function (SpecDisc) ----
    disc_in,            \* the UrlResult handed to discover_sourcemap
    disc_out,           \* what the call gave
    disc_pc,            \* "call" before the call, "done" after
    \* ---- release artifacts (SpecArt) ----
    file_cache,         \* sentry.utils.cache.cache: key -> entry
    artifact_store,     \* the release's uploaded archives, index and files
    art_call,           \* the last fetch_release_artifact call and what it did
    file_call,          \* the last fetch_file call and what it did
    \* ---- get_max_age as a function (SpecAge) ----
    age_in,             \* the headers handed to get_max_age
    age_out             \* what the call returned, None before the call

ctx_vars == <<ctx_in, ctx_out, ctx_pc>>

event_vars == <<platform, frames>>

proc_vars == <<options, allow_scraping, max_fetches, fetch_count, release, sourceview_cache,
               sourcemap_cache, sourcemaps_touched, frame_data, contains_errors>>

run_vars == <<pc, pending, fetch_log, requested, cs_trace, calls>>

disc_vars == <<disc_in, disc_out, disc_pc>>

art_vars == <<file_cache, artifact_store, art_call, file_call>>

age_vars == <<age_in, age_out>>

vars == <<ctx_vars, event_vars, proc_vars, run_vars, disc_vars, art_vars, age_vars>>

\* ------------------------------------------------------------------------
\* Python values and sequence primitives
\* ------------------------------------------------------------------------
None == <<>>

Some(v) == <<v>>

IsNone(o) == o = <<>>

Val(o) == o[1]

Min(a, b) == IF a < b THEN a ELSE b

Max(a, b) == IF a > b THEN a ELSE b

\* s[i] for a 0-based Python index i (negative indices count from the end)
InRange0(s, i) == (i >= 0 /\ i < Len(s)) \/ (i < 0 /\ -i <= Len(s))

At0(s, i) == IF i >= 0 THEN s[i + 1] ELSE s[Len(s) + i + 1]

\* the clamped bound of a Python slice
SliceBound(s, i) == IF i < 0 THEN Max(Len(s) + i, 0) ELSE Min(i, Len(s))

\* s[a:b]
Slice0(s, a, b) == SubSeq(s, SliceBound(s, a) + 1, SliceBound(s, b))

\* ------------------------------------------------------------------------
\* Characters
\* ------------------------------------------------------------------------
NEWLINE == 0

\* " {snip}" and "{snip} ": seven characters each
SNIP_SUFFIX == <<-7, -1, -2, -3, -4, -5, -6>>

SNIP_PREFIX == <<-1, -2, -3, -4, -5, -6, -7>>

\* a line of n ordinary characters; character i is the integer i
Line(n) == [i \in 1..n |-> i]

\* str.strip("\n")
RECURSIVE LStripNL(_)
LStripNL(s) == IF Len(s) > 0 /\ s[1] = NEWLINE THEN LStripNL(Tail(s)) ELSE s

RECURSIVE RStripNL(_)
RStripNL(s) ==
    IF Len(s) > 0 /\ s[Len(s)] = NEWLINE THEN RStripNL(SubSeq(s, 1, Len(s) - 1)) ELSE s

StripNL(s) == RStripNL(LStripNL(s))

\* ------------------------------------------------------------------------
\* trim_line
\* ------------------------------------------------------------------------
TRIM_NOTRIM == 150

TRIM_BEFORE == 60

TRIM_SPAN == 140

TRIM_EDGE == 5

trim_line_wide(line0, column0) ==
    LET line == StripNL(line0)
        ll == Len(line)
    IN  IF ll <= TRIM_NOTRIM THEN line
        ELSE
          LET column == IF column0 > ll THEN ll ELSE column0
              start1 == Max(column - TRIM_BEFORE, 0)
              start2 == IF start1 < TRIM_EDGE THEN 0 ELSE start1
              end1 == Min(start2 + TRIM_SPAN + 10, ll)
              end2 == IF end1 > ll - TRIM_EDGE THEN ll ELSE end1
              start3 == IF end2 = ll THEN Max(end2 - TRIM_SPAN - 10, 0) ELSE start2
              body == Slice0(line, start3, end2)
              withEnd == IF end2 < ll THEN body \o SNIP_SUFFIX ELSE body
          IN  IF start3 > 0 THEN SNIP_PREFIX \o withEnd ELSE withEnd

trim_line(line0, column0) ==
    LET line == StripNL(line0)
        ll == Len(line)
    IN  IF ll <= TRIM_NOTRIM THEN line
        ELSE
          LET column == IF column0 > ll THEN ll ELSE column0
              start1 == Max(column - TRIM_BEFORE, 0)
              start2 == IF start1 < TRIM_EDGE THEN 0 ELSE start1
              end1 == Min(start2 + TRIM_SPAN, ll)
              end2 == IF end1 > ll - TRIM_EDGE THEN ll ELSE end1
              start3 == IF end2 = ll THEN Max(end2 - TRIM_SPAN, 0) ELSE start2
              body == Slice0(line, start3, end2)
              withEnd == IF end2 < ll THEN body \o SNIP_SUFFIX ELSE body
          IN  IF start3 > 0 THEN SNIP_PREFIX \o withEnd ELSE withEnd

\* ------------------------------------------------------------------------
\* get_source_context
\* ------------------------------------------------------------------------
LINES_OF_CONTEXT == 5

TrimAll(lines) == [i \in 1..Len(lines) |-> trim_line(lines[i], 0)]

OrNone(lines) == IF Len(lines) = 0 THEN None ELSE Some(lines)

CtxRaise(e) == [exc |-> e, pre_context |-> None, context_line |-> None, post_context |-> None]

\* get_source_context without the lineno test of line 129: a lineno beyond
\* the last line is only noticed when source[lineno] is read
get_source_context_unchecked(source, lineno0, colno, context) ==
    IF Len(source) = 0 THEN CtxRaise("none")
    ELSE IF ~InRange0(source, lineno0)
      THEN CtxRaise("IndexError")
    ELSE IF colno > Len(At0(source, lineno0)) THEN CtxRaise("BadSource")
    ELSE [exc |-> "none",
          pre_context |-> OrNone(TrimAll(Slice0(source, Max(0, lineno0 - 1 - context),
                                                lineno0 - 1))),
          context_line |-> Some(trim_line(At0(source, lineno0 - 1), colno)),
          post_context |-> OrNone(TrimAll(Slice0(source, lineno0,
                                                 Min(lineno0 + context, Len(source)))))]

\* The result is a record: exc is "none" on a normal return, otherwise the
\* exception that left the function.
get_source_context(source, lineno0, colno, context) ==
    IF Len(source) = 0 THEN CtxRaise("none")
    ELSE IF lineno0 > Len(source) THEN CtxRaise("BadSource")
    ELSE IF ~InRange0(source, lineno0) THEN CtxRaise("IndexError")
    ELSE IF colno > Len(At0(source, lineno0)) THEN CtxRaise("BadSource")
    ELSE
      LET lineno == IF lineno0 > 0 THEN lineno0 - 1 ELSE lineno0
          lower_bound == Max(0, lineno - context)
          upper_bound == Min(lineno + 1 + context, Len(source))
          pre == TrimAll(Slice0(source, lower_bound, lineno))
          cline == IF InRange0(source, lineno)
                     THEN trim_line(At0(source, lineno), colno)
                     ELSE <<>>
          post == TrimAll(Slice0(source, lineno + 1, upper_bound))
      IN  [exc |-> "none",
           pre_context |-> OrNone(pre),
           context_line |-> Some(cline),
           post_context |-> OrNone(post)]

\* ------------------------------------------------------------------------
\* Inputs of get_source_context
\* ------------------------------------------------------------------------
MaxSourceLines == 12

\* line lengths around the trimming thresholds; the last one ends in "\n"
LineLens == <<0, 3, 150, 151, 160, 300>>

NumPatterns == 6

SourceLine(k, i) ==
    LET n == LineLens[((i + k) % Len(LineLens)) + 1]
    IN  IF (i + k) % 7 = 0 THEN Line(n) \o <<NEWLINE>> ELSE Line(n)

MkSource(n, k) == [i \in 1..n |-> SourceLine(k, i)]

CtxSources == {MkSource(n, k) : n \in 0..MaxSourceLines, k \in 0..(NumPatterns - 1)}

CtxColnos == {0, 1, 3, 4, 64, 65, 150, 151, 156, 160, 161, 296, 300, 301}

\* ------------------------------------------------------------------------
\* URLs: sequences of tokens, e.g. http://x/a.min.js is <<"http:", "x", "a.min.js">>
\* ------------------------------------------------------------------------
BASE64_SOURCEMAP_PREAMBLE == "data:application/json;base64,"

URL_SCHEMES == {"http:", "https:", "webpack:", "app:", BASE64_SOURCEMAP_PREAMBLE}

HasToken(url, t) == \E i \in 1..Len(url) : url[i] = t

Front(s) == SubSeq(s, 1, Len(s) - 1)

RECURSIVE DropDots(_)
DropDots(ref) == IF Len(ref) > 0 /\ ref[1] = "." THEN DropDots(Tail(ref)) ELSE ref

\* sentry.utils.urls.non_standard_url_join: url join that tolerates unknown schemes
non_standard_url_join(base, to_join) ==
    IF Len(to_join) = 0 THEN base
    ELSE IF to_join[1] \in URL_SCHEMES THEN to_join
    ELSE IF to_join[1] = "/"
           THEN IF Len(base) >= 2 /\ base[1] \in URL_SCHEMES
                  THEN <<base[1], base[2]>> \o Tail(to_join)
                  ELSE to_join
    ELSE Front(base) \o DropDots(to_join)

\* sentry.http.expose_url: data URIs are not shown
expose_url(url) == IF Len(url) > 0 /\ url[1] = BASE64_SOURCEMAP_PREAMBLE
                     THEN <<"<data url>">> ELSE url

is_data_uri(url) == Len(url) > 0 /\ url[1] = BASE64_SOURCEMAP_PREAMBLE

\* ------------------------------------------------------------------------
\* The outside world of one run: what the release artifacts and the web hold
\* ------------------------------------------------------------------------
U_A == <<"http:", "x", "a.min.js">>

M_A == <<"http:", "x", "a.min.js.map">>

U_B == <<"http:", "x", "b.js">>

U_404 == <<"http:", "x", "gone.js">>

U_NM == <<"http:", "x", "node_modules", "lib.js">>

\* a minified file under node_modules that links a source map nobody serves
U_NMM == <<"http:", "x", "node_modules", "dep.min.js">>

U_RN == <<"http:", "x", "rn.js">>

U_B64 == <<"http:", "x", "inl.js">>

U_APP == <<"app:", "a.js">>

U_SRV == <<"/", "srv", "b.js">>

\* a dependency's bundle and its source map, uploaded with the release
U_APPNM == <<"app:", "node_modules", "dep.min.js">>

M_APPNM == <<"app:", "node_modules", "dep.min.js.map">>

U_ANON == <<"<anonymous>">>

\* original sources of a webpack bundle: webpack:///./src/app.js,
\* webpack:///~/lodash/index.js and webpack:///./src/~/x.js
W_APP == <<"webpack:", ".", "src", "app.js">>

W_DEP == <<"webpack:", "~", "lodash", "index.js">>

W_NEST == <<"webpack:", ".", "src", "~", "x.js">>

\* a line of a fetched body: its length as text, and what discover_sourcemap
\* can see in it.  kind "code": no marker; "hash" / "at": the line starts
\* with //# sourceMappingURL= or //@ sourceMappingURL= followed by ref;
\* "inline": code followed by //# sourceMappingURL=ref within its last 300
\* characters; "json": a source map document named by map.
CodeLine(n) == [kind |-> "code", ref |-> <<>>, len |-> n, map |-> ""]

MarkerLine(k, r) == [kind |-> k, ref |-> r, len |-> 40, map |-> ""]

JsonLine(m) == [kind |-> "json", ref |-> <<>>, len |-> 30, map |-> m]

NoHeaders == [sourcemap |-> None, x_sourcemap |-> None]

UrlResult(url, headers, body, status) ==
    [url |-> url, headers |-> headers, body |-> body, status |-> status, encoding |-> None]

BODY_A == <<CodeLine(20), MarkerLine("hash", <<"a.min.js.map", "/*", "ascii", "*/">>)>>

BODY_PLAIN == <<CodeLine(20)>>

BODY_NMM == <<CodeLine(20), MarkerLine("hash", <<"dep.min.js.map">>)>>

BODY_RN == <<CodeLine(20), MarkerLine("hash", <<"/*", "ascii", "*/">>)>>

BODY_B64 == <<CodeLine(20), MarkerLine("hash", <<BASE64_SOURCEMAP_PREAMBLE, "B64_BAD">>)>>

\* what an HTTP request for url answers; status 0 stands for a request that
\* http.fetch_file refuses or that fails (it raises BadSource)
WebResponse(url) ==
    CASE url = U_A -> UrlResult(url, NoHeaders, BODY_A, 200)
      [] url = M_A -> UrlResult(url, NoHeaders, <<JsonLine("MAP_A")>>, 200)
      [] url = U_B -> UrlResult(url, NoHeaders, BODY_PLAIN, 200)
      [] url = U_NMM -> UrlResult(url, NoHeaders, BODY_NMM, 200)
      [] url = U_RN -> UrlResult(url, NoHeaders, BODY_RN, 200)
      [] url = U_B64 -> UrlResult(url, NoHeaders, BODY_B64, 200)
      [] url = U_404 -> UrlResult(url, NoHeaders, <<CodeLine(0)>>, 404)
      [] OTHER -> UrlResult(url, NoHeaders, <<CodeLine(0)>>, 0)

\* what the release's artifacts hold (fetch_release_artifact): None when the
\* url is not among them
ReleaseArtifact(url) ==
    IF url \in {U_APP, U_SRV} THEN Some(UrlResult(url, NoHeaders, BODY_PLAIN, 200))
    ELSE IF url = U_APPNM THEN Some(UrlResult(url, NoHeaders, BODY_NMM, 200))
    ELSE IF url = M_APPNM THEN Some(UrlResult(url, NoHeaders, <<JsonLine("MAP_NM")>>, 200))
    ELSE None

\* the text of a body, as the lines a SourceView gives
BodyLines(body) == [i \in 1..Len(body) |-> Line(body[i].len)]

\* base64 payloads of inline source maps: number of characters, how many of
\* them are outside the base64 alphabet, and the document they decode to
B64Payload(tok) ==
    CASE tok = "B64_BAD" -> [len |-> 5, bad |-> 0, doc |-> <<JsonLine("")>>]
      [] tok = "B64_JUNK" -> [len |-> 4, bad |-> 0, doc |-> <<CodeLine(3)>>]
      [] tok = "" -> [len |-> 0, bad |-> 0, doc |-> <<CodeLine(0)>>]
      [] OTHER -> [len |-> 8, bad |-> 0, doc |-> <<JsonLine("MAP_A")>>]

\* parsed source maps (symbolic.SourceMapView): the inlined sources and the
\* lookup table
NoToken == [src |-> <<>>, src_line |-> 0, src_col |-> 0, function_name |-> None, name |-> None]

MapSources(m) ==
    IF m = "MAP_A"
      THEN <<[name |-> <<"a.js">>, content |-> Some(<<Line(10), Line(4)>>)],
             [name |-> <<"b.js">>, content |-> None],
             [name |-> W_APP, content |-> Some(<<Line(10), Line(4)>>)],
             [name |-> W_DEP, content |-> None],
             [name |-> W_NEST, content |-> Some(<<Line(10), Line(4)>>)]>>
    ELSE IF m = "MAP_NM"
      THEN <<[name |-> <<"index.js">>, content |-> Some(<<Line(10), Line(4)>>)]>>
      ELSE <<>>

\* lookup(line, col, minified_function_name, minified_source):
\* outcome "token", "none" or "raise"
MapLookup(m, line, col) ==
    CASE m = "MAP_A" /\ line = 0 /\ col = 0 ->
             [outcome |-> "token",
              token |-> [NoToken EXCEPT !.src = <<"a.js">>, !.src_col = 2,
                                        !.name = Some("render")]]
      [] m = "MAP_A" /\ line = 0 /\ col = 4 ->
             [outcome |-> "token",
              token |-> [NoToken EXCEPT !.src = <<"b.js">>, !.src_col = 1,
                                        !.function_name = Some("load"),
                                        !.name = Some("fetch")]]
      [] m = "MAP_A" /\ line = 0 /\ col = 2 ->
             [outcome |-> "token",
              token |-> [NoToken EXCEPT !.src = <<"a.js">>, !.src_line = 1]]
      [] m = "MAP_A" /\ line = 0 /\ col = 5 ->
             [outcome |-> "token",
              token |-> [NoToken EXCEPT !.src = W_APP, !.function_name = Some("main")]]
      [] m = "MAP_A" /\ line = 0 /\ col = 6 ->
             [outcome |-> "token", token |-> [NoToken EXCEPT !.src = W_DEP]]
      [] m = "MAP_A" /\ line = 0 /\ col = 7 ->
             [outcome |-> "token", token |-> [NoToken EXCEPT !.src = W_NEST]]
      [] m = "MAP_A" /\ line = 0 /\ col = 9 -> [outcome |-> "raise", token |-> NoToken]
      [] m = "MAP_A" /\ line = 0 /\ col = 40 -> [outcome |-> "raise", token |-> NoToken]
      [] m = "MAP_NM" /\ line = 0 /\ col = 0 ->
             [outcome |-> "token", token |-> [NoToken EXCEPT !.src = <<"index.js">>]]
      [] OTHER -> [outcome |-> "none", token |-> NoToken]

KnownMaps == {"MAP_A", "MAP_NM"}

\* ------------------------------------------------------------------------
\* SourceCache and SourceMapCache (sentry.lang.javascript.cache)
\* ------------------------------------------------------------------------
EmptySourceCache == [cache |-> <<>>, errors |-> <<>>, aliases |-> <<>>]

SC_Canonical(c, url) == IF url \in DOMAIN c.aliases THEN c.aliases[url] ELSE url

\* url in cache.  The contract does not say whether a url that only has
\* errors recorded counts as present; contains_errors selects the reading and
\* both are explored.
SC_Contains(c, url) ==
    \/ SC_Canonical(c, url) \in DOMAIN c.cache
    \/ contains_errors /\ SC_Canonical(c, url) \in DOMAIN c.errors

SC_Get(c, url) ==
    IF SC_Canonical(c, url) \in DOMAIN c.cache THEN Some(c.cache[SC_Canonical(c, url)]) ELSE None

SC_GetErrors(c, url) ==
    IF SC_Canonical(c, url) \in DOMAIN c.errors THEN c.errors[SC_Canonical(c, url)] ELSE <<>>

SC_Add(c, url, source) ==
    [c EXCEPT !.cache = (SC_Canonical(c, url) :> source) @@ c.cache]

SC_AddError(c, url, error) ==
    [c EXCEPT !.errors = (SC_Canonical(c, url) :> Append(SC_GetErrors(c, url), error)) @@ c.errors]

SC_Alias(c, u1, u2) ==
    IF u1 = u2 THEN c ELSE [c EXCEPT !.aliases = (u2 :> SC_Canonical(c, u1)) @@ c.aliases]

EmptySourceMapCache == [links |-> <<>>, maps |-> <<>>]

SMC_Link(m, url, sourcemap_url) == [m EXCEPT !.links = (url :> sourcemap_url) @@ m.links]

SMC_Contains(m, sourcemap_url) == sourcemap_url \in DOMAIN m.maps

SMC_Add(m, sourcemap_url, view) == [m EXCEPT !.maps = (sourcemap_url :> view) @@ m.maps]

\* get_link: (sourcemap_url, sourcemap_view), either of them None
SMC_GetLink(m, url) ==
    IF url \notin DOMAIN m.links THEN [url |-> None, view |-> None]
    ELSE [url |-> Some(m.links[url]),
          view |-> IF m.links[url] \in DOMAIN m.maps THEN Some(m.maps[m.links[url]]) ELSE None]

\* ------------------------------------------------------------------------
\* Error records and exceptions
\* ------------------------------------------------------------------------
Error(type, url) == [type |-> type, url |-> url]

NoError == Error("", <<>>)

\* the outcome of a call that can raise: exc is "none" or the exception class
Ok(v) == [exc |-> "none", error |-> NoError, value |-> v]

Raise(e, err) == [exc |-> e, error |-> err, value |-> <<>>]

CannotFetch(type, url) == Raise("BadSource", Error(type, expose_url(url)))

\* ------------------------------------------------------------------------
\* fetch_file
\* ------------------------------------------------------------------------
JS_FILE_NAMES == {"a.min.js", "b.js", "gone.js", "lib.js", "rn.js", "inl.js", "a.js",
                  "dep.min.js"}

fetch_file(url) ==
    IF Len(url) > 0 /\ url[Len(url)] = "..." THEN CannotFetch("js_truncated_url", url)
    ELSE
      LET artifact == IF IsNone(release) THEN None ELSE ReleaseArtifact(url)
          web == WebResponse(url)
      IN  IF IsNone(artifact) /\ ~allow_scraping
            THEN CannotFetch("js_scraping_disabled", url)
          ELSE IF IsNone(artifact) /\ ~(Len(url) > 0 /\ url[1] \in {"http:", "https:"})
            THEN CannotFetch("js_invalid_url", url)
          ELSE IF IsNone(artifact) /\ web.status = 0
            THEN CannotFetch("js_generic_fetch_error", url)
          ELSE
            LET result == IF IsNone(artifact) THEN web ELSE Val(artifact)
            IN  IF result.status # 200 THEN CannotFetch("js_invalid_http_code", url)
                ELSE IF /\ Len(url) > 0 /\ url[Len(url)] \in JS_FILE_NAMES
                        /\ result.body[1].kind = "html"
                  THEN Raise("BadSource", Error("js_invalid_content", url))
                ELSE Ok(result)

\* ------------------------------------------------------------------------
\* discover_sourcemap
\* ------------------------------------------------------------------------
Truthy(o) == ~IsNone(o) /\ Len(Val(o)) > 0

PyOr(a, b) == IF Truthy(a) THEN a ELSE b

\* the candidate lines when the whole body is scanned
PossibilitiesAll(body) == body

Possibilities(body) ==
    IF Len(body) > 10 THEN SubSeq(body, 1, 5) \o SubSeq(body, Len(body) - 4, Len(body))
    ELSE body

\* the for loop over the candidate lines: the last marker line wins
RECURSIVE ScanMarkers(_, _, _)
ScanMarkers(lines, i, found) ==
    IF i > Len(lines) THEN found
    ELSE ScanMarkers(lines, i + 1,
                     IF lines[i].kind \in {"hash", "at"} THEN Some(lines[i].ref) ELSE found)

\* SOURCE_MAPPING_URL_RE searched in the tail of the last candidate line
TailMatch(lines, found) ==
    IF Truthy(found) THEN found
    ELSE IF lines[Len(lines)].kind \in {"hash", "inline"} THEN Some(lines[Len(lines)].ref)
    ELSE found

FirstIndex(ref, t) == CHOOSE i \in 1..Len(ref) : ref[i] = t /\ \A j \in 1..(i - 1) : ref[j] # t

\* the search of the body made whatever the headers name
FindInBodyAlways(result, header) ==
    TailMatch(Possibilities(result.body), ScanMarkers(Possibilities(result.body), 1, header))

\* lines 173-202: the body is searched only when the headers name no map
FindInBody(result, header) ==
    IF Truthy(header) THEN header
    ELSE TailMatch(Possibilities(result.body),
                   ScanMarkers(Possibilities(result.body), 1, header))

\* lines 212-221: the react-native comment after the url
StripComment(ref) ==
    IF HasToken(ref, "/*") /\ ref[Len(ref)] = "*/"
      THEN IF FirstIndex(ref, "/*") = 1 THEN Raise("AssertionError", NoError)
           ELSE Ok(SubSeq(ref, 1, FirstIndex(ref, "/*") - 1))
      ELSE Ok(ref)

JoinFound(result, stripped) ==
    IF stripped.exc # "none" THEN stripped
    ELSE Ok(Some(non_standard_url_join(result.url, stripped.value)))

ResolveFound(result, sourcemap) ==
    IF ~Truthy(sourcemap) THEN Ok(sourcemap)
    ELSE JoinFound(result, StripComment(Val(sourcemap)))

discover_sourcemap(result) ==
    ResolveFound(result,
                 FindInBody(result, PyOr(result.headers.sourcemap, result.headers.x_sourcemap)))

\* ------------------------------------------------------------------------
\* fetch_sourcemap
\* ------------------------------------------------------------------------
\* base64.b64decode of the payload padded with (-len % 4) "=" characters:
\* characters outside the alphabet are dropped, and the remaining data must
\* fill whole groups once padded, else binascii.Error
B64DecodeFails(p) ==
    \/ (p.len - p.bad) % 4 = 1
    \/ (p.len - p.bad) % 4 = 2 /\ (4 - (p.len % 4)) % 4 < 2
    \/ (p.len - p.bad) % 4 = 3 /\ (4 - (p.len % 4)) % 4 < 1

\* SourceMapView.from_json_bytes
ParsesAsMap(body) == Len(body) > 0 /\ body[1].kind = "json" /\ body[1].map \in KnownMaps

DecodeInline(payload) ==
    IF B64DecodeFails(payload) THEN Raise("binascii.Error", NoError) ELSE Ok(payload.doc)

FetchedBody(r) == IF r.exc # "none" THEN r ELSE Ok(r.value.body)

ParseSourcemap(url, fetched) ==
    IF fetched.exc # "none" THEN fetched
    ELSE IF ParsesAsMap(fetched.value) THEN Ok(fetched.value[1].map)
    ELSE Raise("BadSource", Error("js_invalid_sourcemap", expose_url(url)))

fetch_sourcemap(url) ==
    ParseSourcemap(url,
                   IF is_data_uri(url)
                     THEN DecodeInline(B64Payload(IF Len(url) >= 2 THEN url[2] ELSE ""))
                     ELSE FetchedBody(fetch_file(url)))

\* ------------------------------------------------------------------------
\* JavaScriptStacktraceProcessor.cache_source
\* ------------------------------------------------------------------------
\* The processor's mutable state, threaded through the calls of one step.
Proc ==
    [fetch_count |-> fetch_count,
     sourceview_cache |-> sourceview_cache,
     sourcemap_cache |-> sourcemap_cache,
     sourcemaps_touched |-> sourcemaps_touched,
     fetch_log |-> fetch_log,
     requested |-> requested,
     cs_trace |-> <<>>]

LogCount(log, url) == IF url \in DOMAIN log THEN log[url] ELSE 0

LogFetch(P, url) == [P EXCEPT !.fetch_log = (url :> LogCount(P.fetch_log, url) + 1) @@ P.fetch_log]

\* add_error that forgets the error
AddErrorDropped(P, url, error) == P

AddError(P, url, error) ==
    [P EXCEPT !.sourceview_cache = SC_AddError(P.sourceview_cache, url, error)]

TooManyRemoteSources == Error("js_too_many_sources", <<>>)

\* a call's outcome together with the processor state it leaves
Out(P, exc) == [P |-> P, exc |-> exc]

\* the loop over sourcemap_view.iter_sources(): cache the inlined sources
RECURSIVE AddInlinedSources(_, _, _, _)
AddInlinedSources(c, sourcemap_url, sources, i) ==
    IF i > Len(sources) THEN c
    ELSE AddInlinedSources(
           IF IsNone(sources[i].content) THEN c
           ELSE SC_Add(c, non_standard_url_join(sourcemap_url, sources[i].name),
                       Val(sources[i].content)),
           sourcemap_url, sources, i + 1)

\* lines 1386-1406: f is what fetch_sourcemap gave
CSSourcemapFetched(P5, filename, sourcemap_url, f) ==
    IF f.exc = "BadSource" THEN Out(AddError(P5, filename, f.error), "none")
    ELSE IF f.exc # "none" THEN Out(P5, f.exc)
    ELSE Out([P5 EXCEPT
                !.sourcemap_cache = SMC_Add(@, sourcemap_url, f.value),
                !.sourceview_cache = AddInlinedSources(@, sourcemap_url, MapSources(f.value), 1)],
             "none")

\* lines 1366-1385: P4 has the link
CSLinked(P4, filename, sourcemap_url) ==
    IF SMC_Contains(P4.sourcemap_cache, sourcemap_url) THEN Out(P4, "none")
    ELSE CSSourcemapFetched(LogFetch(P4, sourcemap_url), filename, sourcemap_url,
                            fetch_sourcemap(sourcemap_url))

\* lines 1359-1366: d is what discover_sourcemap gave
CSDiscovered(P3, filename, d) ==
    IF d.exc # "none" THEN Out(P3, d.exc)
    ELSE IF ~Truthy(d.value) THEN Out(P3, "none")
    ELSE CSLinked([P3 EXCEPT !.sourcemap_cache = SMC_Link(@, filename, Val(d.value))],
                  filename, Val(d.value))

\* lines 1341-1359: r is what fetch_file gave
CSFetched(P2, filename, r) ==
    IF r.exc # "none"
      THEN IF HasToken(filename, "node_modules")
             THEN Out(P2, "none")
             ELSE Out(AddError(P2, filename, r.error), "none")
    ELSE CSDiscovered([P2 EXCEPT !.sourceview_cache =
                         SC_Alias(SC_Add(@, filename, BodyLines(r.value.body)),
                                  r.value.url, filename)],
                      filename, discover_sourcemap(r.value))

\* the budget test of line 1321 with the bound off by one
OverBudgetLate(count) == count > max_fetches + 1

OverBudget(count) == count > max_fetches

\* lines 1321-1340: P1 has the incremented fetch_count
CSCounted(P1, filename) ==
    IF OverBudget(P1.fetch_count)
      THEN Out(AddError(P1, filename, TooManyRemoteSources), "none")
    ELSE CSFetched(LogFetch(P1, filename), filename, fetch_file(filename))

\* the record of a cache_source call in cs_trace: the url, fetch_count on
\* entry, the urls fetched by the call and whether the call recorded
\* TooManyRemoteSources for the url
CSTraced(P0, filename, o) ==
    Out([o.P EXCEPT !.cs_trace = Append(@,
           [filename |-> filename,
            count_before |-> P0.fetch_count,
            fetched |-> {u \in DOMAIN o.P.fetch_log :
                            LogCount(o.P.fetch_log, u) > LogCount(P0.fetch_log, u)},
            too_many |-> SC_GetErrors(o.P.sourceview_cache, filename)
                           = Append(SC_GetErrors(P0.sourceview_cache, filename),
                                    TooManyRemoteSources),
            exc |-> o.exc])],
        o.exc)

cache_source(P0, filename) ==
    CSTraced(P0, filename,
             CSCounted([P0 EXCEPT !.fetch_count = @ + 1, !.requested = @ \cup {filename}],
                       filename))

\* get_sourceview: the outcome's value is the SourceView or None
GSCached(o, filename) ==
    [P |-> o.P, exc |-> o.exc,
     value |-> IF o.exc = "none" THEN SC_Get(o.P.sourceview_cache, filename) ELSE None]

get_sourceview(P0, filename) ==
    IF ~SC_Contains(P0.sourceview_cache, filename)
      THEN GSCached(cache_source(P0, filename), filename)
      ELSE GSCached(Out(P0, "none"), filename)

\* ------------------------------------------------------------------------
\* Stack frames
\* ------------------------------------------------------------------------
Frame(abs_path, lineno, colno) ==
    [abs_path |-> abs_path, lineno |-> lineno, colno |-> colno,
     function |-> None, module |-> None, filename |-> None, in_app |-> None,
     context_line |-> None, pre_context |-> None, post_context |-> None,
     data_sourcemap |-> None]

\* truthiness of an optional number: None and 0 are falsy
NumTruthy(o) == ~IsNone(o) /\ Val(o) # 0

\* is_valid_frame accepting every frame
is_valid_frame_any(frame) == TRUE

is_valid_frame(frame) == ~IsNone(frame.lineno)

\* ------------------------------------------------------------------------
\* generate_module
\* ------------------------------------------------------------------------
UNKNOWN_MODULE == <<"<unknown module>">>

\* splitext and the ".min" suffix, on the file names of this world
FileStem(name) ==
    CASE name = "a.min.js" -> "a"
      [] name = "a.js" -> "a"
      [] name = "b.js" -> "b"
      [] name = "app.js" -> "app"
      [] name = "index.js" -> "index"
      [] name = "lib.js" -> "lib"
      [] name = "x.js" -> "x"
      [] OTHER -> name

\* path segments CLEAN_MODULE_RE strips from the front
NoiseSegments == {".", "~", "js", "build", "static", "node_modules", "scripts"}

RECURSIVE StripNoise(_)
StripNoise(segs) ==
    IF Len(segs) > 0 /\ segs[1] \in NoiseSegments THEN StripNoise(Tail(segs)) ELSE segs

\* urlsplit(src).path: without the scheme and, after http(s), the host
UrlPath(src) ==
    IF Len(src) >= 2 /\ src[1] \in {"http:", "https:"} THEN SubSeq(src, 3, Len(src))
    ELSE IF Len(src) >= 1 /\ src[1] \in URL_SCHEMES \cup {"/"} THEN Tail(src)
    ELSE src

StemLast(path) == IF Len(path) = 0 THEN path ELSE [path EXCEPT ![Len(path)] = FileStem(@)]

ModuleOrUnknown(cleaned) == IF Len(cleaned) = 0 THEN UNKNOWN_MODULE ELSE cleaned

generate_module(src) ==
    IF Len(src) = 0 THEN UNKNOWN_MODULE
    ELSE ModuleOrUnknown(StripNoise(StemLast(UrlPath(src))))

\* ------------------------------------------------------------------------
\* JavaScriptStacktraceProcessor.expand_frame
\* ------------------------------------------------------------------------
Expanded(P, exc, frame, changed) == [P |-> P, exc |-> exc, frame |-> frame, changed |-> changed]

\* lines 1296-1299: c is what get_source_context gave
EFContext(P, frame, c) ==
    IF c.exc # "none" THEN Expanded(P, c.exc, frame, FALSE)
    ELSE Expanded(P, "none",
                  [frame EXCEPT !.pre_context = c.pre_context,
                                !.context_line = c.context_line,
                                !.post_context = c.post_context],
                  TRUE)

\* lines 1290-1298: gs is the source given or looked up
EFSource(gs, frame) ==
    IF gs.exc # "none" THEN Expanded(gs.P, gs.exc, frame, FALSE)
    ELSE IF IsNone(gs.value) THEN Expanded(gs.P, "none", frame, FALSE)
    ELSE EFContext(gs.P, frame,
                   get_source_context(Val(gs.value), Val(frame.lineno),
                                      IF NumTruthy(frame.colno) THEN Val(frame.colno) ELSE 0,
                                      LINES_OF_CONTEXT))

expand_frame(P0, frame, source) ==
    IF IsNone(frame.lineno) THEN Expanded(P0, "none", frame, FALSE)
    ELSE EFSource(IF IsNone(source) THEN get_sourceview(P0, Val(frame.abs_path))
                  ELSE [P |-> P0, exc |-> "none", value |-> source],
                  frame)

\* ------------------------------------------------------------------------
\* JavaScriptStacktraceProcessor.process_frame
\* ------------------------------------------------------------------------
\* What a call left behind: exc is the exception that escaped it ("none" for
\* a normal return); returned is "nothing" for a bare return and "triple"
\* for (new_frames, raw_frames, all_errors); token_set tells whether
\* processable_frame.data["token"] was assigned (line 1081).
PFRaise(P, exc, token_set, token) ==
    [P |-> P, exc |-> exc, returned |-> "nothing", new_frames |-> None, raw_frames |-> None,
     errors |-> <<>>, token_set |-> token_set, token |-> token]

PFNothing(P) == PFRaise(P, "none", FALSE, None)

PFTriple(P, new_frames, raw_frames, errors, token_set, token) ==
    [P |-> P, exc |-> "none", returned |-> "triple", new_frames |-> new_frames,
     raw_frames |-> raw_frames, errors |-> errors, token_set |-> token_set, token |-> token]

\* "/x/" in path: x is a segment with a slash on both sides
HasInnerSegment(path, x) == \E i \in 2..(Len(path) - 1) : path[i] = x

\* NODE_MODULES_RE: \bnode_modules/
HasNodeModulesDir(path) == \E i \in 1..(Len(path) - 1) : path[i] = "node_modules"

IsWebpack(original_abs_path) == Len(original_abs_path) > 0 /\ original_abs_path[1] = "webpack:"

\* lines 1132-1146: the filename of the rewritten frame
ResolveFilename(original_abs_path, token_src) ==
    IF ~IsWebpack(original_abs_path) THEN token_src
    ELSE IF HasInnerSegment(original_abs_path, "~")
      THEN <<"~">> \o SubSeq(original_abs_path, FirstIndex(original_abs_path, "~") + 1,
                             Len(original_abs_path))
    ELSE Tail(original_abs_path)

\* lines 1138-1181: in_app of a token whose original source is original_abs_path
ResolveInApp(original_abs_path, filename) ==
    IF Len(original_abs_path) > 0 /\ original_abs_path[1] = "app:"
      THEN IF Len(filename) > 0 /\ HasNodeModulesDir(filename) THEN Some(FALSE) ELSE Some(TRUE)
    ELSE IF IsWebpack(original_abs_path)
      THEN IF \/ (Len(filename) > 1 /\ filename[1] = "~")
              \/ HasInnerSegment(filename, "node_modules")
              \/ ~(Len(filename) > 1 /\ filename[1] = ".")
             THEN Some(FALSE)
             ELSE Some(TRUE)
    ELSE IF HasInnerSegment(original_abs_path, "node_modules") THEN Some(FALSE)
    ELSE None

\* lines 1205-1215: e is what expand_frame(new_frame, source=original_source) gave
PFMappedExpanded(L, e) ==
    IF e.exc = "BadSource"
      THEN [exc |-> "none", new_frame |-> L.new_frame, changed_frame |-> "unbound",
            errors |-> Append(L.errors,
                              Error("js_invalid_sourcemap_location", Val(L.new_frame.abs_path)))]
    ELSE [exc |-> e.exc, new_frame |-> e.frame,
          changed_frame |-> IF e.changed THEN "true" ELSE "false",
          errors |-> L.errors]

\* lines 1202-1235: context of the mapped frame.  changed_frame is bound only
\* when expand_frame returned.
PFMapped(L) ==
    IF ~IsNone(L.original_source)
      THEN PFMappedExpanded(L, expand_frame(L.P, L.new_frame, L.original_source))
    ELSE IF ~IsNone(L.token)
      \* line 1228: EventError has no attribute JS_MISSING_ORIGINAL_CODE
      THEN [exc |-> "AttributeError", new_frame |-> L.new_frame,
            changed_frame |-> "unbound", errors |-> L.errors]
    ELSE [exc |-> "none", new_frame |-> L.new_frame,
          changed_frame |-> "unbound", errors |-> L.errors]

\* line 1246: sourcemap_applied and self.expand_frame(raw_frame)
PFRaw(L) ==
    IF L.sourcemap_applied THEN expand_frame(L.P, L.raw_frame, None)
    ELSE Expanded(L.P, "none", L.raw_frame, FALSE)

ChangedRaw(r) == IF r.exc = "BadSource" THEN "unbound" ELSE IF r.changed THEN "true" ELSE "false"

\* in_app written whatever was decided, None included
WithInAppAlways(frame, in_app) == [frame EXCEPT !.in_app = in_app]

\* lines 1274-1276: in_app is written only when it was decided
WithInApp(frame, in_app) == IF IsNone(in_app) THEN frame ELSE [frame EXCEPT !.in_app = in_app]

\* lines 1247-1280: r is what the expansion of the raw frame gave, errors
\* the error list after it
PFReturn(L, mapped, r, errors) ==
    IF r.exc \notin {"none", "BadSource"} THEN PFRaise(r.P, r.exc, L.token_set, L.token)
    \* line 1267, evaluated left to right
    ELSE IF ~L.sourcemap_applied /\ Len(errors) = 0 /\ mapped.changed_frame = "unbound"
      THEN PFRaise(r.P, "UnboundLocalError", L.token_set, L.token)
    ELSE IF ~L.sourcemap_applied /\ Len(errors) = 0
              /\ mapped.changed_frame = "false" /\ ChangedRaw(r) = "false"
      THEN PFRaise(r.P, "none", L.token_set, L.token)
    \* line 1279 reads changed_raw
    ELSE IF ChangedRaw(r) = "unbound"
      THEN PFRaise(r.P, "UnboundLocalError", L.token_set, L.token)
    ELSE PFTriple(r.P,
                  Some(WithInApp(mapped.new_frame, L.in_app)),
                  IF ChangedRaw(r) = "true" THEN Some(WithInApp(r.frame, L.in_app)) ELSE None,
                  IF Truthy(mapped.new_frame.context_line) THEN <<>> ELSE errors,
                  L.token_set, L.token)

PFRawExpanded(L, mapped, r) ==
    PFReturn(L, mapped, r,
             IF r.exc = "BadSource" /\ ~IsNone(L.token)
               THEN Append(mapped.errors,
                           Error("js_invalid_stackframe_location", Val(L.incoming_frame.abs_path)))
               ELSE mapped.errors)

PFAfterMapped(L, mapped) ==
    IF mapped.exc # "none" THEN PFRaise(L.P, mapped.exc, L.token_set, L.token)
    ELSE PFRawExpanded(L, mapped, PFRaw(L))

\* lines 1202-1280: context expansion of both frame variants and the return.
\* L holds the locals of process_frame at line 1202.
PFFinish(L) == PFAfterMapped(L, PFMapped(L))

\* the fallback reading function_name of the previous frame's token
FunctionNameOfPrevious(idx, tok) ==
    IF ~IsNone(tok.function_name) THEN tok.function_name
    ELSE IF idx > 1 /\ ~IsNone(frame_data[idx - 1].token)
      THEN Val(frame_data[idx - 1].token).function_name
    ELSE None

\* lines 1108-1129: the function name of the rewritten frame
FunctionName(idx, tok) ==
    IF ~IsNone(tok.function_name) THEN tok.function_name
    ELSE IF idx > 1 /\ ~IsNone(frame_data[idx - 1].token)
      THEN Val(frame_data[idx - 1].token).name
    ELSE None

\* a module generated only for a frame that came without one
ResolveModuleIfMissing(module, original_abs_path, filename) ==
    IF ~Truthy(module) /\ original_abs_path[1] \in {"http:", "https:", "webpack:", "app:"}
      THEN Some(generate_module(original_abs_path))
    ELSE module

\* lines 1166-1167 and 1186-1189: the module of the rewritten frame, module
\* being the one of the incoming frame
ResolveModule(module, original_abs_path, filename) ==
    IF ~Truthy(module) /\ original_abs_path[1] \in {"http:", "https:", "webpack:", "app:"}
      THEN Some(generate_module(original_abs_path))
    ELSE IF IsWebpack(original_abs_path) THEN Some(generate_module(filename))
    ELSE module

\* lines 1100-1189: gs is what get_sourceview(original_abs_path) gave
PFRewrite(gs, idx, tok, new0, errors, original_abs_path, filename, function_name) ==
    IF gs.exc # "none" THEN PFRaise(gs.P, gs.exc, TRUE, Some(tok))
    ELSE PFFinish(
           [P |-> gs.P, incoming_frame |-> frames[idx],
            new_frame |->
              [new0 EXCEPT
                 !.lineno = Some(tok.src_line + 1),
                 !.colno = Some(tok.src_col + 1),
                 !.function = IF IsNone(function_name) THEN @ ELSE function_name,
                 !.abs_path = Some(original_abs_path),
                 !.filename = Some(filename),
                 !.module = ResolveModule(frames[idx].module, original_abs_path, filename)],
            raw_frame |-> frames[idx], errors |-> errors,
            token |-> Some(tok), token_set |-> TRUE,
            sourcemap_applied |-> TRUE, original_source |-> gs.value,
            in_app |-> ResolveInApp(original_abs_path, filename)])

\* lines 1089-1100: a token was found
PFToken(P2, idx, tok, new0, errors, original_abs_path) ==
    PFRewrite(get_sourceview(P2, original_abs_path), idx, tok, new0, errors,
              original_abs_path, ResolveFilename(original_abs_path, tok.src),
              FunctionName(idx, tok))

SourcemapLabel(url, sourcemap_url) ==
    IF is_data_uri(sourcemap_url) THEN expose_url(url) \o <<"(inline)">>
    ELSE expose_url(sourcemap_url)

\* lines 1048-1089: lk is what sourcemap_view.lookup gave
PFLookedUp(P2, idx, sourcemap_url, lk, new0, errors) ==
    IF lk.outcome = "token"
      THEN PFToken(P2, idx, lk.token, new0, errors,
                   non_standard_url_join(sourcemap_url, lk.token.src))
    ELSE PFFinish([P |-> P2, incoming_frame |-> frames[idx],
                   new_frame |-> new0, raw_frame |-> frames[idx],
                   errors |-> IF lk.outcome = "raise"
                                THEN Append(errors,
                                            Error("js_invalid_stackframe_location",
                                                  Val(frames[idx].abs_path)))
                                ELSE errors,
                   token |-> None, token_set |-> TRUE,
                   sourcemap_applied |-> TRUE, original_source |-> None,
                   in_app |-> None])

\* lines 1038-1194: link is what sourcemaps_cache.get_link gave, P2 and
\* errors the state and the error list after lines 1039-1043
PFLinked(P2, idx, link, errors) ==
    IF ~IsNone(link.view)
      THEN PFLookedUp(P2, idx, Val(link.url),
                      MapLookup(Val(link.view), Val(frames[idx].lineno) - 1,
                                Val(frames[idx].colno) - 1),
                      [frames[idx] EXCEPT !.data_sourcemap =
                          Some(SourcemapLabel(Val(frames[idx].abs_path), Val(link.url)))],
                      errors)
    ELSE PFFinish([P |-> P2, incoming_frame |-> frames[idx],
                   new_frame |-> IF Truthy(link.url)
                                   THEN [frames[idx] EXCEPT !.data_sourcemap =
                                           Some(expose_url(Val(link.url)))]
                                   ELSE frames[idx],
                   raw_frame |-> frames[idx],
                   errors |-> errors, token |-> None, token_set |-> FALSE,
                   sourcemap_applied |-> FALSE, original_source |-> None,
                   in_app |-> None])

\* lines 1035-1043: minified_source is there; consult the source map cache
PFMap(P1, idx, errors0, link) ==
    IF Truthy(link.url)
      THEN PFLinked([P1 EXCEPT !.sourcemaps_touched = @ \cup {Val(link.url)}], idx, link,
                    errors0 \o SC_GetErrors(P1.sourceview_cache, Val(link.url)))
      ELSE PFLinked(P1, idx, link, errors0)

\* lines 1014-1038: gs is what get_sourceview(abs_path) gave
PFSource(gs, idx, minified_file_fetching_errors) ==
    IF gs.exc # "none" THEN PFRaise(gs.P, gs.exc, FALSE, None)
    ELSE IF IsNone(gs.value) \/ Len(Val(gs.value)) = 0
      THEN PFTriple(gs.P, None, None,
                    IF Len(minified_file_fetching_errors) = 0
                      THEN <<Error("js_no_minified_source",
                                   expose_url(Val(frames[idx].abs_path)))>>
                      ELSE minified_file_fetching_errors,
                    FALSE, None)
    ELSE PFMap(gs.P, idx, minified_file_fetching_errors,
               SMC_GetLink(gs.P.sourcemap_cache, Val(frames[idx].abs_path)))

\* does the precheck of lines 987-1012 reject the frame
Precheck(frame) ==
    \/ ~NumTruthy(frame.lineno) \/ ~NumTruthy(frame.colno)
    \/ Val(frame.lineno) <= 0 \/ Val(frame.colno) <= 0

PrecheckError(frame) ==
    Error(IF ~NumTruthy(frame.lineno) \/ ~NumTruthy(frame.colno)
            THEN "js_missing_row_or_column"
            ELSE "js_invalid_row_or_column",
          expose_url(Val(frame.abs_path)))

process_frame(P0, idx) ==
    IF ~Truthy(frames[idx].abs_path) THEN PFNothing(P0)
    ELSE IF platform = "node" /\ Val(frames[idx].abs_path)[1] \notin {"/", "app:", "webpack:"}
      THEN PFNothing(P0)
    ELSE IF Precheck(frames[idx])
      THEN PFTriple(P0, None, None,
                    Append(SC_GetErrors(P0.sourceview_cache, Val(frames[idx].abs_path)),
                           PrecheckError(frames[idx])),
                    FALSE, None)
    ELSE PFSource(get_sourceview(P0, Val(frames[idx].abs_path)), idx,
                  SC_GetErrors(P0.sourceview_cache, Val(frames[idx].abs_path)))

\* ------------------------------------------------------------------------
\* The run: state after construction, and the steps
\* ------------------------------------------------------------------------
MaxFrames == 2

MaxBudget == 2

MaxCalls == 2

\* the frames an event can be made of, in stacktrace order
FrameOrder ==
    <<Frame(Some(U_A), Some(1), Some(1)),
      Frame(Some(U_A), Some(1), Some(5)),
      Frame(Some(U_A), Some(1), Some(10)),
      Frame(Some(U_B), Some(1), Some(1)),
      Frame(Some(U_404), Some(1), Some(1)),
      Frame(Some(U_NM), Some(1), Some(1)),
      Frame(Some(U_RN), Some(1), Some(1)),
      Frame(Some(U_B64), Some(1), Some(1)),
      Frame(Some(U_B), None, Some(1)),
      Frame(Some(U_B), Some(1), None),
      Frame(Some(U_B), Some(0), Some(1)),
      Frame(Some(U_B), Some(1), Some(-1)),
      Frame(Some(U_APP), Some(1), Some(1)),
      Frame(Some(U_SRV), Some(1), Some(1)),
      Frame(None, Some(1), Some(1)),
      Frame(Some(U_ANON), Some(1), Some(1)),
      Frame(Some(U_A), Some(1), Some(3)),
      [Frame(Some(U_A), Some(1), Some(6)) EXCEPT !.module = Some(<<"mine">>)],
      Frame(Some(U_A), Some(1), Some(7)),
      [Frame(Some(U_A), Some(1), Some(8)) EXCEPT !.function = Some("t")],
      Frame(Some(U_NMM), Some(1), Some(1)),
      Frame(Some(U_APPNM), Some(1), Some(1)),
      [Frame(Some(U_A), Some(1), Some(1)) EXCEPT !.function = Some("t"),
                                                 !.module = Some(<<"mine">>)],
      Frame(Some(U_A), Some(1), Some(41)),
      [Frame(Some(U_NMM), Some(1), Some(1)) EXCEPT !.context_line = Some(<<7>>)],
      [Frame(Some(U_A), Some(1), Some(1)) EXCEPT !.in_app = Some(TRUE)],
      [Frame(Some(U_A), Some(1), Some(10)) EXCEPT !.in_app = Some(FALSE)],
      [Frame(Some(U_A), Some(1), Some(6)) EXCEPT !.in_app = Some(FALSE)]>>

\* the subsequence of s at the positions in I
RECURSIVE Pick(_, _, _)
Pick(s, I, i) ==
    IF i > Len(s) THEN <<>>
    ELSE IF i \in I THEN <<s[i]>> \o Pick(s, I, i + 1)
    ELSE Pick(s, I, i + 1)

\* the sets of at most n positions of FrameOrder
RECURSIVE Positions(_)
Positions(n) ==
    IF n = 0 THEN {{}}
    ELSE Positions(n - 1) \cup {J \cup {i} : J \in Positions(n - 1), i \in 1..Len(FrameOrder)}

EventFrames == {Pick(FrameOrder, I, 1) : I \in Positions(MaxFrames)}

DiscIdle ==
    /\ disc_in = UrlResult(U_A, NoHeaders, <<CodeLine(0)>>, 200)
    /\ disc_out = Ok(None)
    /\ disc_pc = "done"

ArtIdle ==
    /\ file_cache = <<>>
    /\ artifact_store = <<>>
    /\ art_call = <<>>
    /\ file_call = <<>>

AgeIdle ==
    /\ age_in = <<>>
    /\ age_out = <<>>

CtxIdle ==
    /\ ctx_in = [source |-> <<>>, lineno |-> 1, colno |-> 0]
    /\ ctx_out = CtxRaise("none")
    /\ ctx_pc = "done"

\* JavaScriptStacktraceProcessor.__init__ and preprocess_frame
InitProcessor ==
    /\ fetch_count = 0
    /\ release = None
    /\ sourceview_cache = EmptySourceCache
    /\ sourcemap_cache = EmptySourceMapCache
    /\ sourcemaps_touched = {}
    /\ frame_data = [i \in 1..Len(frames) |-> [token |-> None]]
    /\ pc = "new"
    /\ pending = {}
    /\ fetch_log = <<>>
    /\ requested = {}
    /\ cs_trace = <<>>
    /\ calls = <<>>

\* the value of the option sentry:scrape_javascript: not set, True, False or 0
OptionValues == {"unset", "True", "False", "0"}

\* get_option(key, default)
get_option(value, default) == IF value = "unset" THEN default ELSE value

\* __init__: organization.get_option(..., True) is not False and
\* project.get_option(..., True), as fetch_file tests it (`not allow_scraping`)
AllowScraping(o) ==
    /\ get_option(o.organization, "True") # "False"
    /\ get_option(o.project, "True") \notin {"False", "0"}

DefaultOptions == [organization |-> "unset", project |-> "unset"]

\* the options of the events processed: the default, and scraping switched
\* off for the organization
RunOptions == {DefaultOptions, [organization |-> "False", project |-> "unset"]}

Init ==
    /\ CtxIdle
    /\ DiscIdle
    /\ ArtIdle
    /\ AgeIdle
    /\ platform \in {"javascript", "node"}
    /\ frames \in EventFrames
    /\ options \in RunOptions
    /\ allow_scraping = AllowScraping(options)
    /\ max_fetches \in 1..MaxBudget
    /\ contains_errors \in BOOLEAN
    /\ InitProcessor

\* the processor state a step leaves
SetProc(P) ==
    /\ fetch_count' = P.fetch_count
    /\ sourceview_cache' = P.sourceview_cache
    /\ sourcemap_cache' = P.sourcemap_cache
    /\ sourcemaps_touched' = P.sourcemaps_touched
    /\ fetch_log' = P.fetch_log
    /\ requested' = P.requested
    /\ cs_trace' = P.cs_trace

\* populate_source_cache, lines 1413-1437: the urls to prime
PendingFileList(valid) ==
    {Val(valid[i].abs_path) : i \in {j \in 1..Len(valid) :
        /\ ~IsNone(valid[j].abs_path)
        /\ valid[j].abs_path # Some(U_ANON)
        /\ ~(platform = "node" /\ Val(valid[j].abs_path)[1] # "app:")}}

\* get_valid_frames
get_valid_frames == SelectSeq(frames, is_valid_frame)

\* preprocess_step up to the loop of populate_source_cache
PreprocessStep ==
    /\ pc = "new"
    /\ IF Len(get_valid_frames) = 0
         THEN /\ pc' = "process"
              /\ UNCHANGED <<release, pending>>
         ELSE /\ release' = Some("r1")
              /\ pending' = PendingFileList(get_valid_frames)
              /\ pc' = IF PendingFileList(get_valid_frames) = {} THEN "process" ELSE "priming"
    /\ cs_trace' = <<>>
    /\ UNCHANGED <<ctx_vars, disc_vars, age_vars, art_vars, event_vars, options, allow_scraping, max_fetches, fetch_count,
                   sourceview_cache, sourcemap_cache, sourcemaps_touched, frame_data,
                   contains_errors, fetch_log, requested, calls>>

\* one iteration of the loop of populate_source_cache (a set: any order)
PrimeDone(filename, o) ==
    /\ SetProc(o.P)
    /\ IF o.exc # "none"
         THEN pc' = "aborted" /\ pending' = pending
         ELSE /\ pending' = pending \ {filename}
              /\ pc' = IF pending = {filename} THEN "process" ELSE "priming"

PrimeOne ==
    /\ pc = "priming"
    /\ \E filename \in pending : PrimeDone(filename, cache_source(Proc, filename))
    /\ UNCHANGED <<ctx_vars, disc_vars, age_vars, art_vars, event_vars, options, allow_scraping, max_fetches, release, frame_data,
                   contains_errors, calls>>

CallRecord(idx, r) ==
    [idx |-> idx, exc |-> r.exc, returned |-> r.returned, new_frames |-> r.new_frames,
     raw_frames |-> r.raw_frames, errors |-> r.errors,
     token_set |-> r.token_set, token |-> r.token,
     previous_token |-> IF idx > 1 THEN frame_data[idx - 1].token ELSE None,
     errors_before |-> IF IsNone(frames[idx].abs_path) THEN <<>>
                       ELSE SC_GetErrors(sourceview_cache, Val(frames[idx].abs_path)),
     count_before |-> fetch_count, count_after |-> r.P.fetch_count,
     requested_before |-> requested, requested_after |-> r.P.requested,
     fetch_log_before |-> fetch_log, fetch_log_after |-> r.P.fetch_log]

\* the object the statement `name = origin` binds name to
dict_same(name, origin) == origin

\* the object the statement `name = dict(origin)` binds name to (lines
\* 1035, 1036 and 1083): a new dict, called after the local it is bound to
dict(name, origin) == name

\* processable_frame.frame after a call that ended as r.  Every write of
\* process_frame and of expand_frame goes to the object bound to new_frame,
\* to the one bound to raw_frame, or assigns a data dict to new_frame["data"].
IncomingAfter(incoming_frame, r) ==
    IF IsNone(r.new_frames) THEN incoming_frame
    ELSE IF dict("new_frame", "incoming_frame") = "incoming_frame" THEN Val(r.new_frames)
    ELSE IF dict("raw_frame", "incoming_frame") = "incoming_frame" /\ ~IsNone(r.raw_frames)
      THEN Val(r.raw_frames)
    ELSE IF dict("new_frame.data", "incoming_frame.data") = "incoming_frame.data"
      THEN [incoming_frame EXCEPT !.data_sourcemap = Val(r.new_frames).data_sourcemap]
    ELSE incoming_frame

\* one call of process_frame by the stacktrace processing loop
ProcessDone(idx, r) ==
    /\ SetProc(r.P)
    /\ frames' = [frames EXCEPT ![idx] = IncomingAfter(frames[idx], r)]
    /\ frame_data' = IF r.token_set THEN [frame_data EXCEPT ![idx].token = r.token]
                     ELSE frame_data
    /\ calls' = Append(calls, CallRecord(idx, r))

ProcessFrame ==
    /\ pc = "process"
    /\ Len(calls) < MaxCalls
    /\ \E idx \in 1..Len(frames) : ProcessDone(idx, process_frame(Proc, idx))
    /\ UNCHANGED <<ctx_vars, disc_vars, age_vars, art_vars, platform, options, allow_scraping, max_fetches, release,
                   contains_errors, pc, pending>>

Next == PreprocessStep \/ PrimeOne \/ ProcessFrame

Spec == Init /\ [][Next]_vars

\* ------------------------------------------------------------------------
\* SpecCtx: get_source_context on bounded inputs
\* ------------------------------------------------------------------------
\* a processor that processes nothing, constructed under the options o
RunIdleWith(o) ==
    /\ platform = "javascript"
    /\ frames = <<>>
    /\ options = o
    /\ allow_scraping = AllowScraping(o)
    /\ max_fetches = 1
    /\ contains_errors = FALSE
    /\ InitProcessor

RunIdle == RunIdleWith(DefaultOptions)

InitCtx ==
    /\ ctx_in \in [source : CtxSources,
                   lineno : 1..(MaxSourceLines + 1),
                   colno : CtxColnos]
    /\ ctx_out = CtxRaise("none")
    /\ ctx_pc = "call"
    /\ RunIdle
    /\ DiscIdle
    /\ ArtIdle
    /\ AgeIdle

CallGetSourceContext ==
    /\ ctx_pc = "call"
    /\ ctx_out' = get_source_context(ctx_in.source, ctx_in.lineno, ctx_in.colno,
                                     LINES_OF_CONTEXT)
    /\ ctx_pc' = "done"
    /\ UNCHANGED <<ctx_in, event_vars, proc_vars, run_vars, disc_vars, age_vars, art_vars>>

NextCtx == CallGetSourceContext

SpecCtx == InitCtx /\ [][NextCtx]_vars

\* ------------------------------------------------------------------------
\* SpecDisc: discover_sourcemap on bounded inputs
\* ------------------------------------------------------------------------
MaxBodyLines == 12

R_ONE == <<"one.map">>

R_ALT == <<"alt.map">>

R_TAIL == <<"tail.map">>

\* a url followed by the comment react-native appends
R_CMT == <<"two.map", "/*", "ascii", "*/">>

\* nothing after the marker
R_EMPTY == <<>>

\* only the comment
R_BARE == <<"/*", "ascii", "*/">>

\* code followed by //# sourceMappingURL=tail.map on the same line
InlineLine == [kind |-> "inline", ref |-> R_TAIL, len |-> 60, map |-> ""]

\* a body of n lines: a //# marker at line p, a //@ marker at line q (0: no
\* such line), the last line ending in an inline marker when tail
DiscBody(n, p, rp, q, rq, tail) ==
    [i \in 1..n |->
        IF i = p THEN MarkerLine("hash", rp)
        ELSE IF i = q THEN MarkerLine("at", rq)
        ELSE IF i = n /\ tail THEN InlineLine
        ELSE CodeLine(20)]

DiscLengths == {1, 2, 10, 11, MaxBodyLines}

\* positions at the edges of the scanned windows
DiscPositions(n) == {0, 1, 5, 6, n - 5, n - 4, n} \cap (0..n)

DiscBodiesOf(n) ==
    {DiscBody(n, pq[1], r[1], pq[2], r[2], tail) :
        pq \in {x \in DiscPositions(n) \X DiscPositions(n) : x[1] = 0 \/ x[1] # x[2]},
        r \in {R_ONE, R_CMT, R_EMPTY, R_BARE} \X {R_ALT, R_CMT, R_EMPTY},
        tail \in BOOLEAN}

DiscHeaders ==
    {NoHeaders,
     [sourcemap |-> Some(<<"h.map">>), x_sourcemap |-> None],
     [sourcemap |-> None, x_sourcemap |-> Some(<<"x.map">>)],
     [sourcemap |-> Some(<<>>), x_sourcemap |-> Some(<<"x.map">>)],
     [sourcemap |-> Some(<<"h.map">>), x_sourcemap |-> Some(<<"x.map">>)],
     [sourcemap |-> Some(<<"/", "maps", "h.map">>), x_sourcemap |-> None],
     [sourcemap |-> Some(<<>>), x_sourcemap |-> Some(<<>>)]}

InitDisc ==
    /\ \E n \in DiscLengths :
         disc_in \in {UrlResult(U_A, h, b, 200) : h \in DiscHeaders, b \in DiscBodiesOf(n)}
    /\ disc_out = Ok(None)
    /\ disc_pc = "call"
    /\ CtxIdle
    /\ RunIdle
    /\ ArtIdle
    /\ AgeIdle

CallDiscoverSourcemap ==
    /\ disc_pc = "call"
    /\ disc_out' = discover_sourcemap(disc_in)
    /\ disc_pc' = "done"
    /\ UNCHANGED <<disc_in, ctx_vars, event_vars, proc_vars, run_vars, art_vars, age_vars>>

NextDisc == CallDiscoverSourcemap

SpecDisc == InitDisc /\ [][NextDisc]_vars

\* ------------------------------------------------------------------------
\* SpecArt: release artifacts (fetch_release_artifact and what it calls)
\* ------------------------------------------------------------------------
\* settings.SENTRY_CACHE_MAX_VALUE_SIZE, in bytes of the model's bodies
CACHE_MAX_VALUE_SIZE == 5

MAX_FETCH_ATTEMPTS == 3

\* the most ESTALE failures in a row a read of the artifact store suffers
MaxStale == 4

ReleaseId == "1"

URL_APP == "http://x/app.js"

URL_LIB == "http://x/lib.js"

ArtUrls == {URL_APP, URL_LIB}

\* ReleaseFile.normalize: the ordered candidate names of a url
normalize(url) ==
    IF url = URL_APP THEN <<URL_APP, "~/app.js">> ELSE <<URL_LIB, "~/lib.js">>

ArtNames == {normalize(u)[i] : u \in ArtUrls, i \in 1..2}

\* ReleaseFile.get_ident (dist_name is None throughout)
get_ident(name) == "ident:" \o name

ARTIFACT_INDEX_FILENAME == "artifact-index.json"

ArchiveIdent == get_ident("release-artifacts.zip")

\* an archive the manifest may still name although its ReleaseFile row is gone
OldArchiveIdent == get_ident("old-artifacts.zip")

get_release_file_cache_key(release_id, releasefile_ident) ==
    "releasefile:v1:" \o release_id \o ":" \o releasefile_ident

get_release_file_cache_key_meta(release_id, releasefile_ident) ==
    "meta:" \o get_release_file_cache_key(release_id, releasefile_ident)

\* (cache_key, cache_key_meta)
get_cache_keys(filename) ==
    LET releasefile_ident == get_ident(filename)
    IN  <<get_release_file_cache_key(ReleaseId, releasefile_ident),
          get_release_file_cache_key_meta(ReleaseId, releasefile_ident)>>

ArtifactIndexCacheKey ==
    "artifact-index:v1:" \o ReleaseId \o ":" \o get_ident(ARTIFACT_INDEX_FILENAME)

ArchiveCacheKey == get_release_file_cache_key(ReleaseId, ArchiveIdent)

\* md5_text(url).hexdigest()
md5_text(url) == "md5(" \o url \o ")"

WebscrapingCacheKey(url) == "source:cache:v4:" \o md5_text(url)

ArtKeys ==
    {get_cache_keys(u)[i] : u \in ArtUrls, i \in 1..2}
        \cup {ArtifactIndexCacheKey, ArchiveCacheKey,
              get_release_file_cache_key(ReleaseId, OldArchiveIdent)}
        \cup {WebscrapingCacheKey(u) : u \in ArtUrls}

\* ---- zlib: a one-byte header followed by run lengths --------------------
RECURSIVE RunLength(_)
RunLength(b) ==
    IF b = <<>> THEN <<>>
    ELSE LET rest == RunLength(Tail(b))
         IN  IF rest # <<>> /\ rest[2] = Head(b)
                THEN <<rest[1] + 1, Head(b)>> \o SubSeq(rest, 3, Len(rest))
                ELSE <<1, Head(b)>> \o rest

zlib_compress(content) == <<120>> \o RunLength(content)

RECURSIVE Expand(_)
Expand(z) ==
    IF z = <<>> THEN <<>>
    ELSE [i \in 1..z[1] |-> z[2]] \o Expand(SubSeq(z, 3, Len(z)))

zlib_decompress(z_body) == Expand(Tail(z_body))

\* ---- uploaded artifacts -------------------------------------------------
B_EMPTY == <<>>

B_SMALL == <<5, 5, 5>>

B_MID == <<5, 5, 6>>

B_BIG == <<1, 2, 3, 4>>

H_NONE == {}

H_JS == {<<"Content-Type", "application/javascript; charset=utf-8">>}

H_TEXT == {<<"content-type", "text/javascript">>}

File(name, body, headers) == [name |-> name, body |-> body, headers |-> headers]

\* read_artifact_index: "none" (no index uploaded), "error" (reading raises)
\* or "ok" with the manifest's files: candidate name -> archive_ident
IndexChoices ==
    {[state |-> "none", files |-> {}],
     [state |-> "error", files |-> {}],
     [state |-> "ok", files |-> {}],
     [state |-> "ok", files |-> {<<"~/app.js", ArchiveIdent>>}],
     [state |-> "ok", files |-> {<<URL_APP, ArchiveIdent>>, <<"~/lib.js", ArchiveIdent>>}],
     [state |-> "ok", files |-> {<<URL_APP, OldArchiveIdent>>, <<"~/app.js", ArchiveIdent>>}]}

\* the archive: row (its ReleaseFile row exists), valid (ReleaseArchive
\* accepts it), size (of its bytes) and its members
Archive(row, valid, size, members) ==
    [row |-> row, valid |-> valid, size |-> size, members |-> members]

ArchiveChoices ==
    {Archive(FALSE, TRUE, 2, {}),
     Archive(TRUE, FALSE, 2, {}),
     Archive(TRUE, TRUE, 2, {}),
     Archive(TRUE, TRUE, 9, {File("~/app.js", B_BIG, H_JS)}),
     Archive(TRUE, TRUE, 3, {File("~/app.js", B_SMALL, H_TEXT),
                             File(URL_APP, B_MID, H_NONE)}),
     Archive(TRUE, TRUE, 2, {File("~/lib.js", B_EMPTY, H_JS)})}

\* the ReleaseFile rows of individually uploaded files
FileChoices ==
    {{},
     {File("~/app.js", B_BIG, H_TEXT)},
     {File("~/app.js", B_SMALL, H_JS), File(URL_APP, B_MID, H_NONE)},
     {File(URL_LIB, B_SMALL, H_NONE)}}

\* outcome of reading the artifact store: -1 an I/O error other than ESTALE,
\* n >= 0 the number of ESTALE failures before the read succeeds
ReadOutcomes == {-1, 0, MAX_FETCH_ATTEMPTS, MaxStale}

\* ---- sentry.utils.cache.cache -------------------------------------------
\* the cached value -1
Sentinel == [kind |-> "sentinel"]

IsSentinel(result) == result # None /\ Val(result).kind = "sentinel"

\* serialized size of a cached value
ValueSize(value) ==
    CASE value.kind \in {"content", "scraped"} -> Len(value.z_body) + 1
      [] value.kind = "archive" -> value.archive.size
      [] OTHER -> 1

Op(op, key, n) == [op |-> op, key |-> key, n |-> n, e |-> "none"]

\* m is the state a call works on: the cache, the operations the call has
\* performed so far and the artifact it handed to fetch_and_cache_artifact
Did(m, op, key, n) == [m EXCEPT !.ops = Append(@, Op(op, key, n))]

\* file_cache.set: a value above the size limit is silently not stored
StoredBy(cache, key, value) ==
    IF ValueSize(value) > CACHE_MAX_VALUE_SIZE THEN cache
    ELSE [cache EXCEPT ![key] = Some(value)]

CacheSet(m, key, value) ==
    [Did(m, "set", key, ValueSize(value)) EXCEPT !.cache = StoredBy(m.cache, key, value)]

\* file_cache.get
CacheGet(m, key) == Did(m, "get", key, 0)

Ret(m, exc, result) == [m |-> m, exc |-> exc, result |-> result]

\* ---- retries -------------------------------------------------------------
AttemptError(attempt, io) ==
    IF io = -1 THEN "EIO" ELSE IF attempt <= io THEN "ESTALE" ELSE "none"

should_retry_fetch(attempt, e) == ~(attempt > MAX_FETCH_ATTEMPTS) /\ e = "ESTALE"

\* ConditionalRetryPolicy.__call__: attempts are numbered from 1
RECURSIVE RetryFrom(_, _)
RetryFrom(attempt, io) ==
    LET e == AttemptError(attempt, io)
    IN  IF e = "none" THEN [ok |-> TRUE, attempts |-> attempt, e |-> e]
        ELSE IF should_retry_fetch(attempt, e) THEN RetryFrom(attempt + 1, io)
        ELSE [ok |-> FALSE, attempts |-> attempt, e |-> e]

fetch_retry_policy(io) == RetryFrom(1, io)

\* a read made under fetch_retry_policy: the number of attempts and the
\* error it ended with
Tried(m, op, key, tried) ==
    [m EXCEPT !.ops = Append(@, [Op(op, key, tried.attempts) EXCEPT !.e = tried.e])]

\* ---- results -------------------------------------------------------------
\* k.lower() of a header name
Lower(k) == IF k = "Content-Type" THEN "content-type" ELSE k

LowerHeaders(headers) == {<<Lower(h[1]), h[2]>> : h \in headers}

\* requests.utils.get_encoding_from_headers
get_encoding_from_headers(headers) ==
    IF \E h \in headers : h[1] = "content-type"
       THEN LET content_type == (CHOOSE h \in headers : h[1] = "content-type")[2]
            IN  CASE content_type = "application/javascript; charset=utf-8" -> Some("utf-8")
                  [] content_type = "text/javascript" -> Some("ISO-8859-1")
                  [] OTHER -> None
       ELSE None

\* http.UrlResult(url, headers, body, status, encoding)
UrlResult5(url, headers, body, status, encoding) ==
    [url |-> url, headers |-> headers, body |-> body, status |-> status,
     encoding |-> encoding]

\* the tuple (headers, z_body, 200, encoding) kept under the content key
Content(headers, z_body, status, encoding) ==
    [kind |-> "content", headers |-> headers, z_body |-> z_body, status |-> status,
     encoding |-> encoding]

Meta(compressed_size) == [kind |-> "meta", compressed_size |-> compressed_size]

result_from_cache_raw(filename, result) ==
    UrlResult5(filename, result.headers, result.z_body, result.status, result.encoding)

result_from_cache(filename, result) ==
    UrlResult5(filename, result.headers, zlib_decompress(result.z_body), result.status,
               result.encoding)

\* `z_body_size and z_body_size > CACHE_MAX_VALUE_SIZE` in fetch_release_body
SkipCompressionNever(z_body_size) == FALSE

SkipCompression(z_body_size) ==
    /\ z_body_size # None
    /\ Val(z_body_size) # 0
    /\ Val(z_body_size) > CACHE_MAX_VALUE_SIZE

\* the else branch of fetch_and_cache_artifact: the body was read
FetchedAndCached(m, filename, file, z_body, keys) ==
    LET headers == LowerHeaders(file.headers)
        encoding == get_encoding_from_headers(headers)
        result == UrlResult5(filename, headers, file.body, 200, encoding)
    IN  IF z_body # None /\ Val(z_body) # <<>>
           THEN Ret(CacheSet(CacheSet(m, keys[1],
                                      Content(headers, Val(z_body), 200, encoding)),
                             keys[2], Meta(Len(Val(z_body)))),
                    "none", Some(result))
           ELSE Ret(m, "none", Some(result))

\* fetch_release_body once fetch_fn has given the file
FetchReleaseBody(m, filename, file, z_body_size, keys, compress_fn) ==
    IF SkipCompression(z_body_size)
       THEN FetchedAndCached(Did(m, "read", filename, Len(file.body)), filename, file, None,
                             keys)
       ELSE FetchedAndCached(Did(m, compress_fn, filename, Len(file.body)), filename, file,
                             Some(zlib_compress(file.body)), keys)

\* io is what fetch_fn does when called (see ReadOutcomes); keys are
\* (release_file_cache_key, release_file_metadata_cache_key)
fetch_and_cache_artifact(m, filename, io, file, keys, compress_fn) ==
    LET cache_meta == IF CACHE_MAX_VALUE_SIZE # 0 THEN m.cache[keys[2]] ELSE None
        m1 == [(IF CACHE_MAX_VALUE_SIZE # 0 THEN CacheGet(m, keys[2]) ELSE m)
               EXCEPT !.artifact = Some(file)]
        z_body_size == IF cache_meta # None THEN Some(Val(cache_meta).compressed_size)
                       ELSE None
        tried == fetch_retry_policy(io)
        m2 == Tried(m1, "fetch_fn", filename, tried)
    IN  IF ~tried.ok THEN Ret(m2, "none", None)
        ELSE FetchReleaseBody(m2, filename, file, z_body_size, keys, compress_fn)

\* the possible file of the last ident that has one
RECURSIVE LastByIdent(_, _, _)
LastByIdent(possible_files, filename_idents, i) ==
    LET j == Len(filename_idents) + 1 - i
    IN  IF \E rf \in possible_files : get_ident(rf.name) = filename_idents[j]
           THEN CHOOSE rf \in possible_files : get_ident(rf.name) = filename_idents[j]
           ELSE LastByIdent(possible_files, filename_idents, i + 1)

\* the first of possible_files in the priority order of filename_idents
RECURSIVE FirstByIdent(_, _, _)
FirstByIdent(possible_files, filename_idents, i) ==
    IF \E rf \in possible_files : get_ident(rf.name) = filename_idents[i]
       THEN CHOOSE rf \in possible_files : get_ident(rf.name) = filename_idents[i]
       ELSE FirstByIdent(possible_files, filename_idents, i + 1)

fetch_release_file(m, filename, io) ==
    LET keys == get_cache_keys(filename)
        result == m.cache[keys[1]]
        m1 == CacheGet(m, keys[1])
        filename_choices == normalize(filename)
        filename_idents == [i \in 1..Len(filename_choices) |-> get_ident(filename_choices[i])]
        possible_files == {rf \in artifact_store.files :
                              \E i \in 1..Len(filename_idents) :
                                  get_ident(rf.name) = filename_idents[i]}
        m2 == Did(m1, "query_files", filename, Cardinality(possible_files))
    IN  IF result = None
           THEN IF possible_files = {}
                   THEN Ret(CacheSet(m2, keys[1], Sentinel), "none", None)
                   ELSE fetch_and_cache_artifact(
                            m2, filename, io,
                            IF Cardinality(possible_files) = 1
                               THEN CHOOSE rf \in possible_files : TRUE
                               ELSE FirstByIdent(possible_files, filename_idents, 1),
                            keys, "compress_file")
        ELSE IF IsSentinel(result) THEN Ret(m1, "none", None)
        ELSE Ret(m1, "none", Some(result_from_cache(filename, Val(result))))

\* archive.get_file_by_url over the candidates; None stands for KeyError
RECURSIVE GetFromCandidates(_, _, _)
GetFromCandidates(archive, candidates, i) ==
    IF i > Len(candidates) THEN None
    ELSE IF \E f \in archive.members : f.name = candidates[i]
            THEN Some(CHOOSE f \in archive.members : f.name = candidates[i])
            ELSE GetFromCandidates(archive, candidates, i + 1)

get_from_archive(url, archive) == GetFromCandidates(archive, normalize(url), 1)

\* the index: None, or the manifest's files
get_artifact_index(m) ==
    LET result == m.cache[ArtifactIndexCacheKey]
        m1 == CacheGet(m, ArtifactIndexCacheKey)
        m2 == Did(m1, "read_artifact_index", ArtifactIndexCacheKey, 0)
        index == IF artifact_store.index.state = "none" THEN None
                 ELSE Some(artifact_store.index.files)
        cache_value == IF index = None THEN Sentinel
                       ELSE [kind |-> "index", files |-> Val(index)]
    IN  IF IsSentinel(result) THEN Ret(m1, "none", None)
        ELSE IF result # None THEN Ret(m1, "none", Some(Val(result).files))
        ELSE IF artifact_store.index.state = "error" THEN Ret(m2, "Exception", None)
        ELSE Ret(CacheSet(m2, ArtifactIndexCacheKey, cache_value), "none", index)

RECURSIVE FirstEntry(_, _, _)
FirstEntry(files, candidates, i) ==
    IF i > Len(candidates) THEN None
    ELSE IF \E e \in files : e[1] = candidates[i]
            THEN Some((CHOOSE e \in files : e[1] = candidates[i])[2])
            ELSE FirstEntry(files, candidates, i + 1)

\* the entry's archive_ident, or None
get_index_entry(m, url) ==
    LET got == get_artifact_index(m)
    IN  IF got.exc # "none" THEN Ret(got.m, "none", None)
        ELSE IF got.result # None
                THEN Ret(got.m, "none", FirstEntry(Val(got.result), normalize(url), 1))
        ELSE Ret(got.m, "none", None)

\* an open archive file: has_id tells whether the handle has an `id`
\* attribute (a BytesIO over cached bytes has none)
ArchiveFile(archive, has_id) == [archive |-> archive, has_id |-> has_id]

\* fetch_release_archive_for_url past the cache: the ReleaseFile row
ArchiveFromStore(m, archive_cache_key, io) ==
    LET tried == fetch_retry_policy(io)
        m1 == Did(m, "query_archive", archive_cache_key, 0)
        m2 == Tried(m1, "getfile", archive_cache_key, tried)
    IN  IF archive_cache_key # ArchiveCacheKey \/ ~artifact_store.archive.row
           THEN Ret(CacheSet(m1, archive_cache_key, Sentinel), "none", None)
        ELSE IF ~tried.ok THEN Ret(m2, "none", None)
        ELSE Ret(CacheSet(m2, archive_cache_key,
                          [kind |-> "archive", archive |-> artifact_store.archive]),
                 "none", Some(ArchiveFile(artifact_store.archive, TRUE)))

fetch_release_archive_for_url(m, url, io) ==
    LET info == get_index_entry(m, url)
        archive_cache_key == get_release_file_cache_key(ReleaseId, Val(info.result))
        result == info.m.cache[archive_cache_key]
        m1 == CacheGet(info.m, archive_cache_key)
    IN  IF info.result = None THEN Ret(info.m, "none", None)
        ELSE IF IsSentinel(result) THEN Ret(m1, "none", None)
        ELSE IF result # None
                THEN Ret(m1, "none", Some(ArchiveFile(Val(result).archive, FALSE)))
        ELSE ArchiveFromStore(m1, archive_cache_key, io)

\* fetch_release_artifact once the archive file is at hand
FromArchive(m, url, archive_file, keys, io_file) ==
    LET m1 == Did(m, "ReleaseArchive", keys[1], 0)
        found == get_from_archive(url, archive_file.archive)
    IN  IF ~archive_file.archive.valid THEN fetch_release_file(m1, url, io_file)
        ELSE IF found = None
                THEN IF ~archive_file.has_id THEN Ret(m1, "AttributeError", None)
                     ELSE Ret(CacheSet(m1, keys[1], Sentinel), "none", None)
        ELSE fetch_and_cache_artifact(m1, url, 0, Val(found), keys, "compress")

\* FromArchive or the fall back to fetch_release_file
FromArchiveOrFile(url, got, keys, io_file) ==
    IF got.result # None THEN FromArchive(got.m, url, Val(got.result), keys, io_file)
    ELSE fetch_release_file(got.m, url, io_file)

fetch_release_artifact(m, url, io_archive, io_file) ==
    LET keys == get_cache_keys(url)
        result == m.cache[keys[1]]
        m1 == CacheGet(m, keys[1])
    IN  IF IsSentinel(result) THEN Ret(m1, "none", None)
        ELSE IF result # None THEN Ret(m1, "none", Some(result_from_cache(url, Val(result))))
        ELSE FromArchiveOrFile(url, fetch_release_archive_for_url(m1, url, io_archive),
                               keys, io_file)

\* ---- fetch_file ------------------------------------------------------------
\* a url cut by the client ends in "..."
URL_CUT == "http://x/ap..."

FileUrls == ArtUrls \cup {URL_CUT}

IsTruncated(url) == url = URL_CUT

\* url.startswith(("http:", "https:"))
IsHttpUrl(url) == url \in FileUrls

\* urlsplit(url).path.endswith(".js")
PathEndsWithJs(url) == url \in ArtUrls

\* the byte "<"
LT == 60

B_HTML == <<LT>>

\* what the network answers to http.fetch_file: a small script, a script too
\* large for the cache, a login page, a 404 page or a failure
NetOutcomes == {"ok", "big", "html", "404", "error"}

\* the site serves app.js (small or, after a deploy, large) and answers
\* lib.js with a login page or a 404 page; any request may fail
NetOutcomesOf(url) ==
    IF url = URL_LIB THEN {"html", "404", "error"} ELSE {"ok", "big", "error"}

http_fetch_file(url, net) ==
    CASE net = "ok" -> UrlResult5(url, H_JS, B_SMALL, 200, None)
      [] net = "big" -> UrlResult5(url, H_NONE, B_BIG, 200, None)
      [] net = "html" -> UrlResult5(url, H_NONE, B_HTML, 200, None)
      [] OTHER -> UrlResult5(url, H_NONE, B_EMPTY, 404, None)

\* the tuple (url, headers, z_body, status, encoding) kept under the
\* webscraping cache key
Scraped(url, headers, z_body, status, encoding) ==
    [kind |-> "scraped", url |-> url, headers |-> headers, z_body |-> z_body,
     status |-> status, encoding |-> encoding]

\* the checks a result passes before it is returned
CheckedResult(url, m, result) ==
    IF result.status # 200 THEN Ret(m, "js_invalid_http_code", None)
    ELSE IF PathEndsWithJs(url) /\ result.body # <<>> /\ Head(result.body) = LT
         THEN Ret(m, "js_invalid_content", None)
    ELSE Ret(m, "none", Some(result))

\* the web request with a cache write that is not read back
ScrapedBestEffort(url, m, result) ==
    CheckedResult(url, CacheSet(m, WebscrapingCacheKey(url), Scraped(url, result.headers, zlib_compress(result.body), result.status, result.encoding)), result)

\* the web request, with its result written to the cache and read back
ScrapedAndCached(url, m, result) ==
    LET key == WebscrapingCacheKey(url)
        m1 == CacheGet(CacheSet(m, key, Scraped(url, result.headers, zlib_compress(result.body), result.status, result.encoding)), key)
    IN  IF m1.cache[key] = None
        THEN Ret(Did(m1, "lock_domain", url, 0), "js_too_large", None)
        ELSE CheckedResult(url, m1, result)

FromWeb(url, m, net) ==
    IF net = "error" THEN Ret(Did(m, "http", url, 0), "js_generic_fetch_error", None)
    ELSE ScrapedAndCached(url, Did(m, "http", url, 0), http_fetch_file(url, net))

FromCacheOrWeb(url, m, result, net) ==
    IF result # None
    THEN CheckedResult(url, m, UrlResult5(Val(result).url, Val(result).headers, zlib_decompress(Val(result).z_body), Val(result).status, Val(result).encoding))
    ELSE FromWeb(url, m, net)

FromReleaseOrWeb(url, allow, released, net) ==
    IF released.exc # "none" THEN released
    ELSE IF released.result # None THEN CheckedResult(url, released.m, Val(released.result))
    ELSE IF ~allow THEN Ret(released.m, "js_scraping_disabled", None)
    ELSE IF ~IsHttpUrl(url) THEN Ret(released.m, "js_invalid_url", None)
    ELSE FromCacheOrWeb(url, CacheGet(released.m, WebscrapingCacheKey(url)),
                        released.m.cache[WebscrapingCacheKey(url)], net)

fetch_file_with_cache(m, url, rel, allow, io, net) ==
    IF IsTruncated(url) THEN Ret(m, "js_truncated_url", None)
    ELSE IF rel # None
         THEN FromReleaseOrWeb(url, allow, fetch_release_artifact(m, url, io[1], io[2]), net)
    ELSE FromReleaseOrWeb(url, allow, Ret(m, "none", None), net)

\* ---- the specification ---------------------------------------------------
NoFileCall ==
    [url |-> "", release |-> None, allow_scraping |-> TRUE, ops |-> <<>>,
     exc |-> "none", result |-> None]

NoCall(cache) ==
    [url |-> "", before |-> cache, ops |-> <<>>, artifact |-> None,
     exc |-> "none", result |-> None]

InitArt ==
    /\ file_cache = [k \in ArtKeys |-> None]
    /\ artifact_store \in [index : IndexChoices, archive : ArchiveChoices, files : FileChoices]
    /\ art_call = NoCall(file_cache)
    /\ file_call = NoFileCall
    /\ CtxIdle
    /\ RunIdle
    /\ DiscIdle
    /\ AgeIdle

CallDone(url, done) ==
    /\ file_cache' = done.m.cache
    /\ art_call' = [url |-> url, before |-> file_cache,
                    ops |-> done.m.ops, artifact |-> done.m.artifact,
                    exc |-> done.exc, result |-> done.result]

\* one call of fetch_release_artifact
CallFetchReleaseArtifact ==
    /\ \E url \in ArtUrls, io_archive \in ReadOutcomes, io_file \in ReadOutcomes :
         CallDone(url, fetch_release_artifact(
                           [cache |-> file_cache, ops |-> <<>>, artifact |-> None],
                           url, io_archive, io_file))
    /\ file_call' = NoFileCall
    /\ UNCHANGED <<artifact_store, ctx_vars, event_vars, proc_vars, run_vars, disc_vars, age_vars>>

FileCallDone(url, rel, allow, done) ==
    /\ file_cache' = done.m.cache
    /\ art_call' = NoCall(done.m.cache)
    /\ file_call' = [url |-> url, release |-> rel, allow_scraping |-> allow,
                     ops |-> done.m.ops, exc |-> done.exc, result |-> done.result]

\* how the reads of the archive and of the file go during a fetch_file call
FileReadOutcomes == {<<0, 0>>, <<-1, -1>>}

\* one call of fetch_file(url, release=rel, allow_scraping=self.allow_scraping),
\* as cache_source makes it
CallFetchFile ==
    /\ \E url \in FileUrls, rel \in {None, Some(ReleaseId)}, io \in FileReadOutcomes :
         \E net \in NetOutcomesOf(url) :
         FileCallDone(url, rel, allow_scraping,
                      fetch_file_with_cache([cache |-> file_cache, ops |-> <<>>, artifact |-> None],
                                 url, rel, allow_scraping, io, net))
    /\ UNCHANGED <<artifact_store, ctx_vars, event_vars, proc_vars, run_vars, disc_vars, age_vars>>

\* the cache drops an entry whose timeout has passed; art_call describes
\* the last step only
CacheExpire ==
    /\ \E key \in ArtKeys :
         /\ file_cache[key] # None
         /\ file_cache' = [file_cache EXCEPT ![key] = None]
    /\ art_call' = NoCall(file_cache')
    /\ file_call' = NoFileCall
    /\ UNCHANGED <<artifact_store, ctx_vars, event_vars, proc_vars, run_vars,
                   disc_vars, age_vars>>

NextArt == CallFetchReleaseArtifact \/ CacheExpire

SpecArt == InitArt /\ [][NextArt]_vars

\* fetch_file over the same cache, with a release that has no manifest or
\* one naming the archive, an archive without members or with an oversized
\* one, and any of the individually uploaded files
FileStores ==
    [index : {i \in IndexChoices : i.state = "none" \/ i.files = {<<"~/app.js", ArchiveIdent>>}},
     archive : {a \in ArchiveChoices : a.row /\ a.valid /\ \A f \in a.members : f.body = B_BIG},
     files : FileChoices]

\* the options a processor is constructed under
ScrapeOptions == [organization : OptionValues, project : OptionValues]

InitFile ==
    /\ file_cache = [k \in ArtKeys |-> None]
    /\ artifact_store \in FileStores
    /\ art_call = NoCall(file_cache)
    /\ file_call = NoFileCall
    /\ CtxIdle
    /\ \E o \in ScrapeOptions : RunIdleWith(o)
    /\ DiscIdle
    /\ AgeIdle

NextFile == CallFetchFile \/ CacheExpire

SpecFile == InitFile /\ [][NextFile]_vars

\* ------------------------------------------------------------------------
\* SpecAge: get_max_age on bounded headers
\* ------------------------------------------------------------------------
CACHE_CONTROL_MAX == 7200

CACHE_CONTROL_MIN == 60

\* a Cache-Control value is the sequence of its directives; a directive
\* "max-age=<digits>" is [name |-> "max-age", value |-> n], any other text
\* has value -1
Directive(name, value) == [name |-> name, value |-> value]

\* CACHE_CONTROL_RE.search: the first max-age=<digits> of the value
RECURSIVE CacheControlSearch(_)
CacheControlSearch(cache_control) ==
    IF Len(cache_control) = 0 THEN None
    ELSE IF Head(cache_control).name = "max-age" /\ Head(cache_control).value >= 0
      THEN Some(Head(cache_control).value)
    ELSE CacheControlSearch(Tail(cache_control))

\* get_max_age without the upper clamp
get_max_age_unclamped(headers) ==
    IF ~Truthy(headers.cache_control) THEN CACHE_CONTROL_MIN
    ELSE IF IsNone(CacheControlSearch(Val(headers.cache_control))) THEN CACHE_CONTROL_MIN
    ELSE Max(CACHE_CONTROL_MIN, Val(CacheControlSearch(Val(headers.cache_control))))

get_max_age(headers) ==
    IF ~Truthy(headers.cache_control) THEN CACHE_CONTROL_MIN
    ELSE IF IsNone(CacheControlSearch(Val(headers.cache_control))) THEN CACHE_CONTROL_MIN
    ELSE Min(Max(CACHE_CONTROL_MIN, Val(CacheControlSearch(Val(headers.cache_control)))),
             CACHE_CONTROL_MAX)

\* the max-age values tried: around both ends of the range and far beyond
MaxAgeValues == {0, 1, 59, 60, 61, 3600, 7199, 7200, 7201, 86400, 31536000}

OtherDirectives == {Directive("public", -1), Directive("no-cache", -1), Directive("s-maxage=10", -1)}

CacheControlValues ==
    {<<>>}
        \cup {<<d>> : d \in OtherDirectives}
        \cup {<<Directive("max-age", n)>> : n \in MaxAgeValues}
        \cup {<<d, Directive("max-age", n)>> : d \in OtherDirectives, n \in MaxAgeValues}
        \cup {<<Directive("max-age", n), d>> : d \in OtherDirectives, n \in MaxAgeValues}
        \cup {<<Directive("max-age", n), Directive("max-age", k)>> : n \in MaxAgeValues, k \in {0, 3600}}

AgeHeaders == {[cache_control |-> None]} \cup {[cache_control |-> Some(v)] : v \in CacheControlValues}

InitAge ==
    /\ age_in \in AgeHeaders
    /\ age_out = None
    /\ CtxIdle
    /\ RunIdle
    /\ DiscIdle
    /\ ArtIdle

CallGetMaxAge ==
    /\ age_out = None
    /\ age_out' = Some(get_max_age(age_in))
    /\ UNCHANGED <<age_in, ctx_vars, event_vars, proc_vars, run_vars, disc_vars, art_vars>>

NextAge == CallGetMaxAge

SpecAge == InitAge /\ [][NextAge]_vars

\* ------------------------------------------------------------------------
\* Properties of get_source_context (SpecCtx)
\* ------------------------------------------------------------------------
CtxReturned == ctx_pc = "done" /\ ctx_out.exc = "none"

OptLen(o) == IF IsNone(o) THEN 0 ELSE Len(Val(o))

OptLines(o) == IF IsNone(o) THEN {} ELSE {Val(o)[i] : i \in 1..Len(Val(o))}

CtxReturnedLines ==
    OptLines(ctx_out.pre_context) \cup OptLines(ctx_out.post_context)
        \cup (IF IsNone(ctx_out.context_line) THEN {} ELSE {Val(ctx_out.context_line)})

\* C9: for a non-empty source, 1 <= lineno <= len(source) and colno within
\* the length of line lineno, get_source_context returns normally and
\* context_line is the trimmed line at 1-indexed position lineno.
C9_ContextLineOfTargetLine ==
    (/\ ctx_pc = "done"
     /\ ctx_in.lineno >= 1
     /\ ctx_in.lineno <= Len(ctx_in.source)
     /\ ctx_in.colno <= Len(ctx_in.source[ctx_in.lineno]))
    => /\ ctx_out.exc = "none"
       /\ ctx_out.context_line
            = Some(trim_line(ctx_in.source[ctx_in.lineno], ctx_in.colno))

\* C10: whenever get_source_context returns context, pre_context and
\* post_context hold at most LINES_OF_CONTEXT lines each and every returned
\* line is at most 150 + len("{snip} ") = 157 characters long.
C10_WindowAndLineLength ==
    (CtxReturned /\ Len(ctx_in.source) > 0)
    => /\ OptLen(ctx_out.pre_context) <= LINES_OF_CONTEXT
       /\ OptLen(ctx_out.post_context) <= LINES_OF_CONTEXT
       /\ \A l \in CtxReturnedLines : Len(l) <= TRIM_NOTRIM + Len(SNIP_PREFIX)

\* a call deep inside a long source whose window is full on both sides and
\* holds a line that was snipped at both ends
C10_Witness ==
    /\ CtxReturned
    /\ ctx_in.lineno > LINES_OF_CONTEXT + 1
    /\ OptLen(ctx_out.pre_context) = LINES_OF_CONTEXT
    /\ OptLen(ctx_out.post_context) = LINES_OF_CONTEXT
    /\ \E l \in CtxReturnedLines : Len(l) > TRIM_NOTRIM
    /\ Len(Val(ctx_out.context_line)) = TRIM_SPAN + Len(SNIP_PREFIX) + Len(SNIP_SUFFIX)


\* C11 as stated: for every source, the empty one included, and every lineno
\* greater than the number of lines, get_source_context raises BadSource.
C11_OutOfRangeAnySource ==
    (ctx_pc = "done" /\ ctx_in.lineno > Len(ctx_in.source))
    => ctx_out.exc = "BadSource"

\* C11: for a non-empty source and a lineno greater than the number of
\* lines get_source_context raises BadSource and returns no context; for
\* an empty source it returns (None, None, None) without raising, whatever
\* lineno is.
C11_OutOfRangeLineno ==
    ctx_pc = "done"
    => /\ (Len(ctx_in.source) > 0 /\ ctx_in.lineno > Len(ctx_in.source))
            => ctx_out = CtxRaise("BadSource")
       /\ Len(ctx_in.source) = 0 => ctx_out = CtxRaise("none")

C11_Witness ==
    /\ ctx_pc = "done"
    /\ Len(ctx_in.source) > 1
    /\ ctx_in.lineno = Len(ctx_in.source) + 1
    /\ ctx_in.colno = 0
    /\ ctx_out.exc = "BadSource"
    /\ IsNone(ctx_out.context_line)

\* ------------------------------------------------------------------------
\* Properties of a processing run (Spec)
\* ------------------------------------------------------------------------
Elems(s) == {s[i] : i \in 1..Len(s)}

\* the frames of the event that name the url
FramesOf(u) == {i \in 1..Len(frames) : frames[i].abs_path = Some(u)}

FrameUrls == {Val(frames[i].abs_path) : i \in {j \in 1..Len(frames) : ~IsNone(frames[j].abs_path)}}

\* process_frame gets as far as the precheck for the frame
ReachesPrecheck(frame) ==
    /\ Truthy(frame.abs_path)
    /\ ~(platform = "node" /\ Val(frame.abs_path)[1] \notin {"/", "app:", "webpack:"})

\* C1: within one run no url, minified file or source map, is the subject
\* of more than one fetch_file / fetch_sourcemap call, across priming and
\* all process_frame calls.
C1_FetchedAtMostOnce == \A u \in DOMAIN fetch_log : fetch_log[u] <= 1

\* C2: no process_frame call ends in a raised exception; each returns
\* nothing or a (new_frames, raw_frames, errors) triple.
C2_ProcessFrameNeverRaises ==
    \A i \in 1..Len(calls) :
        calls[i].exc = "none" /\ calls[i].returned \in {"nothing", "triple"}

\* C3: no cache_source call made by populate_source_cache raises, so the
\* loop over the pending urls is never left early.
C3_PrimingNeverAborts ==
    /\ pc # "aborted"
    /\ (pc = "priming" => \A i \in 1..Len(cs_trace) : cs_trace[i].exc = "none")

\* C4: fetch_count never decreases, and every cache_source call entered
\* with fetch_count at or above max_fetches calls neither fetch_file nor
\* fetch_sourcemap and appends TooManyRemoteSources to the errors of the
\* requested url.
C4_BudgetExhausted ==
    [][/\ fetch_count' >= fetch_count
       /\ \A i \in 1..Len(cs_trace') :
            cs_trace'[i].count_before >= max_fetches
              => /\ cs_trace'[i].fetched = {}
                 /\ cs_trace'[i].too_many
                 /\ cs_trace'[i].exc = "none"]_vars

C4_Witness ==
    /\ \E i \in 1..Len(cs_trace) :
         /\ cs_trace[i].count_before >= max_fetches
         /\ cs_trace[i].too_many
         /\ cs_trace[i].filename \notin DOMAIN fetch_log
    /\ fetch_count > max_fetches
    /\ fetch_log # <<>>

\* C5: with more distinct frame urls than max_fetches, at most max_fetches
\* of them are fetched, and every process_frame call that passes the
\* precheck for a frame whose url was never fetched returns a triple whose
\* error list holds TooManyRemoteSources.
C5_UnfetchedFrameCarriesTooMany ==
    /\ Cardinality({u \in FrameUrls : LogCount(fetch_log, u) > 0}) <= max_fetches
    /\ \A i \in 1..Len(calls) :
         (/\ ReachesPrecheck(frames[calls[i].idx])
          /\ ~Precheck(frames[calls[i].idx])
          /\ calls[i].exc = "none"
          /\ LogCount(calls[i].fetch_log_after, Val(frames[calls[i].idx].abs_path)) = 0)
         => /\ calls[i].returned = "triple"
            /\ TooManyRemoteSources \in Elems(calls[i].errors)

\* C6: fetch_count is at most the number of distinct urls cache_source was
\* asked for, and a process_frame call that asks for no url that was not
\* asked for before leaves fetch_count unchanged.
C6_BudgetPerDistinctUrl ==
    /\ fetch_count <= Cardinality(requested)
    /\ \A i \in 1..Len(calls) :
         calls[i].requested_after = calls[i].requested_before
           => calls[i].count_after = calls[i].count_before

\* C7: two successive process_frame calls on the same frame return the same
\* frames and the same error list, and after them no url has been fetched
\* more than once.
C7_ProcessFrameIdempotent ==
    \A i \in 1..(Len(calls) - 1) :
        calls[i].idx = calls[i + 1].idx
          => /\ calls[i + 1].exc = calls[i].exc
             /\ calls[i + 1].returned = calls[i].returned
             /\ calls[i + 1].new_frames = calls[i].new_frames
             /\ calls[i + 1].raw_frames = calls[i].raw_frames
             /\ calls[i + 1].errors = calls[i].errors
             /\ \A u \in DOMAIN calls[i + 1].fetch_log_after :
                  calls[i + 1].fetch_log_after[u] <= 1

\* the urls named by frames of the event, all of which satisfy Rejected
UrlsOnlyOf(Rejected(_)) ==
    {u \in FrameUrls : \A i \in FramesOf(u) : Rejected(frames[i])}

LinenoMissing(frame) == IsNone(frame.lineno)

CallsPast(u) ==
    {i \in 1..Len(calls) :
        /\ frames[calls[i].idx].abs_path = Some(u)
        /\ ReachesPrecheck(frames[calls[i].idx])
        /\ ~Precheck(frames[calls[i].idx])}

HttpCodeError(u) == Error("js_invalid_http_code", u)

MissingMinifiedSource(u) == Error("js_no_minified_source", u)

\* the fetch of u was made with scraping allowed before or during call i
FetchedOverHttp(i, u) == allow_scraping /\ LogCount(calls[i].fetch_log_after, u) > 0

\* C12 as stated: when the fetch of the frame's minified file answered 404,
\* process_frame returns the error list with MissingMinifiedSource in it, no
\* rewritten and no raw frame, and looks nothing up.
C12_NotFoundGivesMissingSource ==
    \A i \in CallsPast(U_404) :
        FetchedOverHttp(i, U_404)
          => /\ calls[i].returned = "triple"
             /\ IsNone(calls[i].new_frames) /\ IsNone(calls[i].raw_frames)
             /\ ~calls[i].token_set
             /\ MissingMinifiedSource(U_404) \in Elems(calls[i].errors)

\* C12: when the fetch of the frame's minified file answered 404,
\* process_frame returns (None, None, errors) without a source-map lookup;
\* errors is the list of fetch errors recorded for the url when the call
\* began, which holds the invalid-http-code error once the fetch has been
\* made, and it is the single MissingMinifiedSource error only when nothing
\* was recorded for the url at that time.
C12_NotFoundReturnsRecordedErrors ==
    \A i \in CallsPast(U_404) :
        /\ calls[i].exc = "none"
        /\ calls[i].returned = "triple"
        /\ IsNone(calls[i].new_frames) /\ IsNone(calls[i].raw_frames)
        /\ ~calls[i].token_set
        /\ calls[i].errors = IF calls[i].errors_before # <<>> THEN calls[i].errors_before
                             ELSE <<MissingMinifiedSource(U_404)>>
        /\ (allow_scraping /\ LogCount(calls[i].fetch_log_before, U_404) > 0)
             => /\ HttpCodeError(U_404) \in Elems(calls[i].errors)
                /\ MissingMinifiedSource(U_404) \notin Elems(calls[i].errors)

C12_Witness ==
    \E i \in CallsPast(U_404) :
        /\ allow_scraping
        /\ LogCount(calls[i].fetch_log_before, U_404) = 1
        /\ calls[i].errors = <<HttpCodeError(U_404)>>
        /\ IsNone(calls[i].new_frames)

\* the source map loaded for the minified file of call i
MapOf(i) == SMC_GetLink(sourcemap_cache, Val(frames[calls[i].idx].abs_path)).view

\* the content a map inlines for the source a token names, or None
RECURSIVE InlinedContent(_, _, _)
InlinedContent(sources, src, k) ==
    IF k > Len(sources) THEN None
    ELSE IF sources[k].name = src THEN sources[k].content
    ELSE InlinedContent(sources, src, k + 1)

\* the calls whose lookup gave a token of an inlined source
CallsWithInlinedToken ==
    {i \in 1..Len(calls) :
        /\ calls[i].token_set
        /\ ~IsNone(calls[i].token)
        /\ ~IsNone(MapOf(i))
        /\ ~IsNone(InlinedContent(MapSources(Val(MapOf(i))), Val(calls[i].token).src, 1))}

TokenSource(i) == Val(InlinedContent(MapSources(Val(MapOf(i))), Val(calls[i].token).src, 1))

\* C13: when the lookup gives a token whose source the map inlines, the
\* rewritten frame has lineno = token.src_line + 1, colno = token.src_col + 1
\* and the trimmed line of the inlined source at that position as
\* context_line, the error list is empty and the call fetches nothing.
C13_InlinedSourceRewrite ==
    \A i \in CallsWithInlinedToken :
        /\ calls[i].exc = "none"
        /\ calls[i].returned = "triple"
        /\ ~IsNone(calls[i].new_frames)
        /\ Val(calls[i].new_frames).lineno = Some(Val(calls[i].token).src_line + 1)
        /\ Val(calls[i].new_frames).colno = Some(Val(calls[i].token).src_col + 1)
        /\ Val(calls[i].new_frames).context_line
             = Some(trim_line(TokenSource(i)[Val(calls[i].token).src_line + 1],
                              Val(calls[i].token).src_col + 1))
        /\ calls[i].errors = <<>>
        /\ calls[i].count_after = calls[i].count_before
        /\ calls[i].fetch_log_after = calls[i].fetch_log_before

\* the calls on a frame with abs_path and positive lineno and colno whose
\* minified source is cached, with no source map linked and no error
\* recorded for the url
CallsOnPlainSource ==
    {i \in 1..Len(calls) :
        /\ ReachesPrecheck(frames[calls[i].idx])
        /\ ~Precheck(frames[calls[i].idx])
        /\ Truthy(SC_Get(sourceview_cache, Val(frames[calls[i].idx].abs_path)))
        /\ IsNone(SMC_GetLink(sourcemap_cache, Val(frames[calls[i].idx].abs_path)).url)
        /\ calls[i].errors_before = <<>>
        /\ SC_GetErrors(sourceview_cache, Val(frames[calls[i].idx].abs_path)) = <<>>}

\* C14: for such a frame process_frame returns nothing and no error.
C14_PlainSourceIsNoOp ==
    \A i \in CallsOnPlainSource :
        /\ calls[i].exc = "none"
        /\ calls[i].returned = "nothing"
        /\ calls[i].errors = <<>>

\* the resolved original path of the token of call i
OriginalPath(i) ==
    non_standard_url_join(
        Val(SMC_GetLink(sourcemap_cache, Val(frames[calls[i].idx].abs_path)).url),
        Val(calls[i].token).src)

\* the calls whose token resolves to a webpack: path
CallsWithWebpackToken ==
    {i \in 1..Len(calls) :
        /\ calls[i].token_set
        /\ ~IsNone(calls[i].token)
        /\ IsWebpack(OriginalPath(i))}

\* the path after webpack:/// starts with ./ and has no /node_modules/ in it
LocalWebpackPath(path) ==
    /\ Len(path) > 1
    /\ path[1] = "."
    /\ ~HasInnerSegment(path, "node_modules")

\* C15: for every token whose resolved original path has the webpack:
\* scheme, process_frame returns the frame with in_app true exactly when the
\* path after webpack:/// starts with ./ and does not contain
\* /node_modules/, and false otherwise.
C15_WebpackInApp ==
    \A i \in CallsWithWebpackToken :
        /\ calls[i].exc = "none"
        /\ calls[i].returned = "triple"
        /\ ~IsNone(calls[i].new_frames)
        /\ Val(calls[i].new_frames).in_app = Some(LocalWebpackPath(Tail(OriginalPath(i))))

\* ------------------------------------------------------------------------
\* Properties of discover_sourcemap (SpecDisc)
\* ------------------------------------------------------------------------
\* the header that names the map: SourceMap when it is non-empty, else
\* X-SourceMap
HeaderValue ==
    IF ~IsNone(disc_in.headers.sourcemap) /\ Val(disc_in.headers.sourcemap) # <<>>
      THEN disc_in.headers.sourcemap
      ELSE disc_in.headers.x_sourcemap

HeaderPresent == ~IsNone(HeaderValue) /\ Val(HeaderValue) # <<>>

\* the url in a header value or after a marker: the text before a trailing
\* /*...*/ comment
UrlPart(ref) ==
    IF (\E k \in 1..Len(ref) : ref[k] = "/*") /\ ref[Len(ref)] = "*/"
      THEN SubSeq(ref, 1, (CHOOSE k \in 1..Len(ref) :
                              ref[k] = "/*" /\ \A j \in 1..(k - 1) : ref[j] # "/*") - 1)
      ELSE ref

Resolved(ref) == non_standard_url_join(disc_in.url, UrlPart(ref))

\* the lines discover_sourcemap looks at
ScannedWindow ==
    IF Len(disc_in.body) > 10
      THEN (1..5) \cup ((Len(disc_in.body) - 4)..Len(disc_in.body))
      ELSE 1..Len(disc_in.body)

IsMarkerLine(i) == disc_in.body[i].kind \in {"hash", "at"}

ScannedMarkers == {i \in ScannedWindow : IsMarkerLine(i)}

LastScannedMarker == CHOOSE i \in ScannedMarkers : \A j \in ScannedMarkers : j <= i

\* C16: when the SourceMap header, or else the X-SourceMap header, is
\* present and non-empty, the result is that header value resolved against
\* the document url, whatever the body holds.
C16_HeaderPrecedence ==
    (disc_pc = "done" /\ HeaderPresent)
    => disc_out = Ok(Some(non_standard_url_join(disc_in.url, Val(HeaderValue))))

C16_Witness ==
    /\ disc_pc = "done"
    /\ HeaderPresent
    /\ ScannedMarkers # {}
    /\ UrlPart(disc_in.body[LastScannedMarker].ref) \notin {<<>>, Val(HeaderValue)}
    /\ disc_in.body[Len(disc_in.body)].kind = "inline"
    /\ disc_out = Ok(Some(non_standard_url_join(disc_in.url, Val(HeaderValue))))

ArtCalled == art_call.url # ""

ContentKey(url) == get_cache_keys(url)[1]

MetaKey(url) == get_cache_keys(url)[2]

\* what the content cache held for the call's url when the call began
ContentBefore == art_call.before[ContentKey(art_call.url)]

OpsOf(kinds) == {i \in 1..Len(art_call.ops) : art_call.ops[i].op \in kinds}

\* the call did nothing but read its url's content-cache key
OnlyContentLookup ==
    /\ Len(art_call.ops) = 1
    /\ art_call.ops[1] = Op("get", ContentKey(art_call.url), 0)
    /\ file_cache = art_call.before

\* C18: fetch_release_artifact looks at the per-file content cache first. On
\* a positive entry it returns that entry decompressed (with the entry's
\* headers, status and encoding), on the negative sentinel it returns
\* not-found; in both cases the lookup of the content key is the only thing
\* the call does: no index read, no archive opened, no per-file query.
C18_ContentCacheFirst ==
    ArtCalled =>
        /\ art_call.ops[1] = Op("get", ContentKey(art_call.url), 0)
        /\ IsSentinel(ContentBefore) =>
              /\ art_call.exc = "none"
              /\ art_call.result = None
              /\ OnlyContentLookup
        /\ (ContentBefore # None /\ ~IsSentinel(ContentBefore)) =>
              /\ art_call.exc = "none"
              /\ art_call.result # None
              /\ Val(art_call.result).url = art_call.url
              /\ zlib_compress(Val(art_call.result).body) = Val(ContentBefore).z_body
              /\ Val(art_call.result).headers = Val(ContentBefore).headers
              /\ Val(art_call.result).status = Val(ContentBefore).status
              /\ Val(art_call.result).encoding = Val(ContentBefore).encoding
              /\ OnlyContentLookup

\* a call answered from a positive content-cache entry of a non-empty body
C18_Witness ==
    /\ ArtCalled
    /\ ContentBefore # None
    /\ ~IsSentinel(ContentBefore)
    /\ art_call.result # None
    /\ Val(art_call.result).body = B_SMALL

\* a call answered from the negative sentinel
C18_WitnessSentinel == ArtCalled /\ IsSentinel(ContentBefore) /\ art_call.result = None

\* the call opened the archive the manifest names for its url, and the
\* archive holds none of the url's candidate names
ArchiveLacksUrl ==
    /\ ArtCalled
    /\ OpsOf({"ReleaseArchive"}) # {}
    /\ artifact_store.archive.valid
    /\ get_from_archive(art_call.url, artifact_store.archive) = None

\* the archive of the call came from the artifact store, not from the cache
ArchiveReadFromStore == OpsOf({"getfile"}) # {}

\* C19: when the manifest maps the url to an archive that is opened and
\* holds none of the url's candidate names, fetch_release_artifact writes the
\* negative sentinel under the url's content key, returns not-found and does
\* not fall back to fetch_release_file.
C19_MissingMemberCachedNegative ==
    ArchiveLacksUrl =>
        /\ art_call.exc = "none"
        /\ art_call.result = None
        /\ file_cache[ContentKey(art_call.url)] = Some(Sentinel)
        /\ OpsOf({"query_files"}) = {}

\* the same for calls that read the archive from the artifact store
C19_MissingMemberFromStore ==
    (ArchiveLacksUrl /\ ArchiveReadFromStore) =>
        /\ art_call.exc = "none"
        /\ art_call.result = None
        /\ file_cache[ContentKey(art_call.url)] = Some(Sentinel)
        /\ OpsOf({"query_files"}) = {}

\* the artifact the call handed to fetch_and_cache_artifact
Fetched == Val(art_call.artifact)

CompressedSize(body) == Len(zlib_compress(body))

\* the call reached fetch_and_cache_artifact, whose fetch function gave an
\* artifact with a compressed size above the cache's maximum value size
OversizedFetched ==
    /\ ArtCalled
    /\ art_call.artifact # None
    /\ OpsOf({"read", "compress", "compress_file"}) # {}
    /\ CompressedSize(Fetched.body) > CACHE_MAX_VALUE_SIZE

MetaBefore == art_call.before[MetaKey(art_call.url)]

ContentWrites ==
    {i \in OpsOf({"set"}) : art_call.ops[i].key = ContentKey(art_call.url)}

ReturnsFullBody ==
    /\ art_call.exc = "none"
    /\ art_call.result # None
    /\ Val(art_call.result).body = Fetched.body
    /\ Val(art_call.result).status = 200

\* C20: for an artifact whose compressed size exceeds the cache's maximum
\* value size, a fetch_and_cache_artifact call made with no metadata entry
\* leaves no content-cache entry and leaves a metadata entry recording the
\* compressed size; a call made while that metadata entry exists compresses
\* nothing and writes nothing under the content key; both return a result
\* with the full uncompressed body.
C20_OversizedUsesMetadata ==
    OversizedFetched =>
        /\ MetaBefore = None =>
              /\ file_cache[ContentKey(art_call.url)] = None
              /\ file_cache[MetaKey(art_call.url)] = Some(Meta(CompressedSize(Fetched.body)))
              /\ ReturnsFullBody
        /\ MetaBefore = Some(Meta(CompressedSize(Fetched.body))) =>
              /\ OpsOf({"compress", "compress_file"}) = {}
              /\ ContentWrites = {}
              /\ file_cache[ContentKey(art_call.url)] = None
              /\ file_cache[MetaKey(art_call.url)] = MetaBefore
              /\ ReturnsFullBody

\* a later call: the metadata entry of the oversized artifact was there
C20_Witness ==
    /\ OversizedFetched
    /\ MetaBefore = Some(Meta(CompressedSize(B_BIG)))
    /\ Val(art_call.result).body = B_BIG

\* a first call: no metadata entry yet, and the content write was attempted
C20_WitnessFirst ==
    /\ OversizedFetched
    /\ MetaBefore = None
    /\ ContentWrites # {}

\* the positions of the url's candidates that are among names
CandidatesIn(url, names) == {i \in 1..Len(normalize(url)) : normalize(url)[i] \in names}

\* the earliest candidate of the url among names
EarliestIn(url, names) ==
    normalize(url)[CHOOSE i \in CandidatesIn(url, names) :
                       \A j \in CandidatesIn(url, names) : i <= j]

NamesOf(files) == {f.name : f \in files}

ManifestNames == {e[1] : e \in artifact_store.index.files}

ManifestIdent(name) == (CHOOSE e \in artifact_store.index.files : e[1] = name)[2]

ArchiveKeys == {get_release_file_cache_key(ReleaseId, ident) :
                   ident \in {ArchiveIdent, OldArchiveIdent}}

\* the archive cache keys the call looked up
ArchiveLookups ==
    {art_call.ops[i].key : i \in {j \in OpsOf({"get"}) : art_call.ops[j].key \in ArchiveKeys}}

\* the call took its artifact from the per-file records
FromFileRecords == art_call.artifact # None /\ OpsOf({"query_files"}) # {}

\* the call took its artifact from the archive
FromArchiveMembers == art_call.artifact # None /\ OpsOf({"query_files"}) = {}

\* C21: whichever stored artifacts match the candidates of the requested
\* filename, the one of the earliest candidate in ReleaseFile.normalize
\* order is used: among the per-file records, among the members of the
\* archive, and among the entries of the manifest (whose archive is the one
\* looked up).
C21_EarliestCandidateWins ==
    ArtCalled =>
        /\ FromFileRecords =>
              /\ Fetched \in artifact_store.files
              /\ Fetched.name = EarliestIn(art_call.url, NamesOf(artifact_store.files))
        /\ FromArchiveMembers =>
              /\ Fetched \in artifact_store.archive.members
              /\ Fetched.name = EarliestIn(art_call.url, NamesOf(artifact_store.archive.members))
        /\ ArchiveLookups # {} =>
              ArchiveLookups =
                  {get_release_file_cache_key(
                       ReleaseId, ManifestIdent(EarliestIn(art_call.url, ManifestNames)))}

\* two manifest entries and two per-file records match different candidates
C21_Witness ==
    /\ ArtCalled
    /\ Cardinality(CandidatesIn(art_call.url, ManifestNames)) = 2
    /\ ArchiveLookups # {}
    /\ FromFileRecords
    /\ Cardinality(CandidatesIn(art_call.url, NamesOf(artifact_store.files))) = 2
    /\ art_call.result # None
    /\ Val(art_call.result).body = B_MID

\* two members of the archive match different candidates
C21_WitnessArchive ==
    /\ ArtCalled
    /\ FromArchiveMembers
    /\ Cardinality(CandidatesIn(art_call.url, NamesOf(artifact_store.archive.members))) = 2
    /\ art_call.result # None

IsNodeModulesUrl(u) == HasToken(u, "node_modules")

GenericFetchError(u) == Error("js_generic_fetch_error", expose_url(u))

\* the url of the source map U_NMM links
M_NMM == <<"http:", "x", "node_modules", "dep.min.js.map">>

\* the errors of a list that come from a fetch, not from the fetch budget
FetchErrors(errors) == {e \in Elems(errors) : e.type # TooManyRemoteSources.type}

\* C22: a failed fetch of a minified file whose url contains node_modules
\* records no error in SourceCache, and process_frame on a frame of that url
\* returns no error record for it; a failed source-map fetch for a
\* node_modules minified file is recorded, and process_frame returns its
\* error for the frames of that file.
C22_NodeModulesFetchSuppressed ==
    /\ FetchErrors(SC_GetErrors(sourceview_cache, U_NM)) = {}
    /\ \A i \in CallsPast(U_NM) :
           /\ calls[i].exc = "none"
           /\ FetchErrors(calls[i].errors) = {}
    /\ \A i \in CallsPast(U_NMM) :
           (allow_scraping /\ calls[i].count_before <= max_fetches) =>
               /\ calls[i].exc = "none"
               /\ GenericFetchError(M_NMM) \in Elems(calls[i].errors)

\* the parts of C22 the code keeps: nothing is recorded in SourceCache for
\* the failed node_modules fetch and the failed source-map fetch is returned;
\* the frame of the failed fetch gets the missing-minified-source error
C22_NodeModulesRecorded ==
    /\ FetchErrors(SC_GetErrors(sourceview_cache, U_NM)) = {}
    /\ \A i \in CallsPast(U_NM) :
           /\ calls[i].exc = "none"
           /\ FetchErrors(calls[i].errors) \subseteq {MissingMinifiedSource(U_NM)}
    /\ \A i \in CallsPast(U_NMM) :
           (allow_scraping /\ calls[i].count_before <= max_fetches) =>
               /\ calls[i].exc = "none"
               /\ GenericFetchError(M_NMM) \in Elems(calls[i].errors)

\* the reads the call made under fetch_retry_policy
RetriedReads == {art_call.ops[i] : i \in OpsOf({"fetch_fn", "getfile"})}

\* C23: under fetch_retry_policy a read that fails with anything but ESTALE
\* is attempted exactly once and ends with that error; a read that fails
\* with ESTALE is attempted at most MAX_FETCH_ATTEMPTS times in total.
C23_AtMostMaxFetchAttempts ==
    \A r \in RetriedReads :
        /\ r.e = "EIO" => r.n = 1
        /\ r.n <= MAX_FETCH_ATTEMPTS

\* what the retry loop does: it gives up at the attempt after
\* MAX_FETCH_ATTEMPTS, and an error other than ESTALE ends it at once
C23_OneMoreAttempt ==
    \A r \in RetriedReads :
        /\ r.e = "EIO" => r.n = 1
        /\ r.e = "ESTALE" => r.n = MAX_FETCH_ATTEMPTS + 1
        /\ r.n <= MAX_FETCH_ATTEMPTS + 1

FileCalled == file_call.url # ""

\* the reads of the artifact store and of the network in a list of operations
OutsideReads(ops) ==
    {i \in 1..Len(ops) : ops[i].op \in {"read_artifact_index", "query_archive", "getfile", "query_files", "fetch_fn", "http"}}

RepeatedFileCall ==
    /\ FileCalled
    /\ file_call'.url = file_call.url
    /\ file_call'.release = file_call.release
    /\ file_call'.allow_scraping = file_call.allow_scraping

\* C24: after a fetch_file call for a url, a repeated fetch_file call for the
\* same url, made before any cache entry has expired, reads neither the
\* artifact store nor the network
C24_RepeatedCallReadsNothing ==
    [][RepeatedFileCall => OutsideReads(file_call'.ops) = {}]_vars

\* C25: for a non-empty source and lineno >= 1, get_source_context raises
\* BadSource exactly when lineno exceeds the number of source lines or colno
\* exceeds the length of the line at 1-indexed position lineno; no other
\* line's length decides the outcome.
C25_BadSourceIffTargetLineExceeded ==
    (/\ ctx_pc = "done"
     /\ Len(ctx_in.source) > 0
     /\ ctx_in.lineno >= 1)
    => (ctx_out.exc = "BadSource"
          <=> (\/ ctx_in.lineno > Len(ctx_in.source)
               \/ ctx_in.colno > Len(ctx_in.source[ctx_in.lineno])))

\* what the code does: the length tested is that of the line after the
\* target line, and the last line has none
C25_BadSourceIffNextLineExceeded ==
    (/\ ctx_pc = "done"
     /\ Len(ctx_in.source) > 0
     /\ ctx_in.lineno >= 1)
    => /\ ctx_out.exc = "BadSource"
          <=> (\/ ctx_in.lineno > Len(ctx_in.source)
               \/ /\ ctx_in.lineno < Len(ctx_in.source)
                  /\ ctx_in.colno > Len(ctx_in.source[ctx_in.lineno + 1]))
       /\ ctx_out.exc = "IndexError" <=> ctx_in.lineno = Len(ctx_in.source)

\* the process_frame calls that returned a frame rewritten from a token
Rewritten ==
    {i \in 1..Len(calls) :
        /\ calls[i].exc = "none"
        /\ calls[i].returned = "triple"
        /\ ~IsNone(calls[i].token)
        /\ ~IsNone(calls[i].new_frames)}

NewFrame(i) == Val(calls[i].new_frames)

TokenOf(i) == Val(calls[i].token)

\* the token's own function_name, else what the previous frame's token
\* gives (fallback), else the frame's function as it came in
ResolvedFunction(i, fallback) ==
    IF ~IsNone(TokenOf(i).function_name) THEN TokenOf(i).function_name
    ELSE IF ~IsNone(calls[i].previous_token) /\ ~IsNone(fallback)
      THEN fallback
    ELSE frames[calls[i].idx].function

\* C26: the rewritten frame's function is the token's own function_name
\* when it has one; otherwise the function name of the previous frame's
\* token, if there is a previous frame with a token; otherwise the frame's
\* function is left as it was.
C26_FunctionNameOfPreviousToken ==
    \A i \in Rewritten :
        NewFrame(i).function
            = ResolvedFunction(i, IF IsNone(calls[i].previous_token) THEN None
                                  ELSE Val(calls[i].previous_token).function_name)

\* C26 as the code has it: the fallback is the name of the previous frame's
\* token (the identifier at its call site), not that token's function_name
C26_CallSiteNameOfPreviousToken ==
    \A i \in Rewritten :
        NewFrame(i).function
            = ResolvedFunction(i, IF IsNone(calls[i].previous_token) THEN None
                                  ELSE Val(calls[i].previous_token).name)

\* a frame whose token has no function_name took the call-site name of the
\* previous frame's token, which differs from that token's function_name
C26_Witness ==
    \E i \in Rewritten :
        /\ IsNone(TokenOf(i).function_name)
        /\ ~IsNone(calls[i].previous_token)
        /\ Val(calls[i].previous_token).name = Some("fetch")
        /\ Val(calls[i].previous_token).function_name = Some("load")
        /\ frames[calls[i].idx].function = Some("t")
        /\ NewFrame(i).function = Some("fetch")

\* the token's own function_name is used
C26_WitnessOwn == \E i \in Rewritten : NewFrame(i).function = Some("main")

\* the previous token has no name: the function is left as it was
C26_WitnessUnchanged ==
    \E i \in Rewritten :
        /\ IsNone(TokenOf(i).function_name)
        /\ ~IsNone(calls[i].previous_token)
        /\ IsNone(Val(calls[i].previous_token).name)
        /\ ~IsNone(Val(calls[i].previous_token).function_name)
        /\ NewFrame(i).function = frames[calls[i].idx].function

\* the rewritten frames whose original path contains /node_modules/
RewrittenInNodeModules ==
    {i \in Rewritten : HasInnerSegment(Val(NewFrame(i).abs_path), "node_modules")}

\* C27: for every token whose resolved original path contains
\* /node_modules/, whatever its scheme, the frames process_frame returns
\* have in_app = false.
C27_NodeModulesNotInApp ==
    \A i \in RewrittenInNodeModules :
        /\ NewFrame(i).in_app = Some(FALSE)
        /\ ~IsNone(calls[i].raw_frames) => Val(calls[i].raw_frames).in_app = Some(FALSE)

\* what the code does for an app: path: in_app follows the token's own src,
\* so a source named relative to its map inside node_modules is in_app
C27_AppPathFollowsTokenSrc ==
    \A i \in RewrittenInNodeModules :
        Val(NewFrame(i).abs_path)[1] = "app:" =>
            NewFrame(i).in_app = Some(~HasNodeModulesDir(TokenOf(i).src))

\* the rewritten frames of incoming frames that carry a module
RewrittenWithModule == {i \in Rewritten : Truthy(frames[calls[i].idx].module)}

C28_Witness ==
    \E i \in RewrittenWithModule :
        /\ ~IsWebpack(Val(NewFrame(i).abs_path))
        /\ NewFrame(i).module = Some(<<"mine">>)

ReturnedFrames ==
    {i \in 1..Len(calls) :
        /\ calls[i].exc = "none"
        /\ calls[i].returned = "triple"
        /\ ~IsNone(calls[i].new_frames)}

\* context expansion of the incoming frame from the cached minified source
RawExpansion(i) == expand_frame(Proc, frames[calls[i].idx], None)

InvalidLocationErrors(i) ==
    {k \in 1..Len(calls[i].errors) : calls[i].errors[k].type = "js_invalid_stackframe_location"}

\* the source map view loaded for the frame's minified file, if any
MapViewOf(i) == SMC_GetLink(sourcemap_cache, Val(frames[calls[i].idx].abs_path)).view

\* C29: whenever the minified source of a frame is available, process_frame
\* expands the raw frame from it, whether or not a source map was linked,
\* loaded or looked up, and returns the raw variant when the expansion
\* succeeded; a failed expansion adds an invalid-location error only if a
\* token had been obtained.
C29_RawFrameWheneverSourceAvailable ==
    \A i \in ReturnedFrames :
        /\ (RawExpansion(i).exc = "none" /\ RawExpansion(i).changed)
               => /\ ~IsNone(calls[i].raw_frames)
                  /\ Val(calls[i].raw_frames).context_line = RawExpansion(i).frame.context_line
        /\ (RawExpansion(i).exc = "BadSource" /\ IsNone(calls[i].token))
               => Cardinality(InvalidLocationErrors(i)) <= 1

\* what the code does: the raw frame is expanded and returned only when a
\* source map view was loaded for the minified file
C29_RawFrameOnlyWithSourceMap ==
    \A i \in ReturnedFrames :
        ~IsNone(calls[i].raw_frames)
            <=> (~IsNone(MapViewOf(i)) /\ RawExpansion(i).exc = "none" /\ RawExpansion(i).changed)

\* the url of the original source the token of call i names
OriginalUrl(i) ==
    non_standard_url_join(
        Val(SMC_GetLink(sourcemap_cache, Val(frames[calls[i].idx].abs_path)).url),
        TokenOf(i).src)

\* the calls that obtained a token whose original source is not inlined in
\* the map and had not been handed to cache_source before
NotInlined ==
    {i \in 1..Len(calls) :
        /\ ~IsNone(calls[i].token)
        /\ ~IsNone(MapViewOf(i))
        /\ \E k \in 1..Len(MapSources(Val(MapViewOf(i)))) :
              /\ MapSources(Val(MapViewOf(i)))[k].name = TokenOf(i).src
              /\ IsNone(MapSources(Val(MapViewOf(i)))[k].content)
        /\ OriginalUrl(i) \notin calls[i].requested_before}

MissingOriginalCode(u) == Error("js_missing_original_code", expose_url(u))

\* C30: when a token is obtained and its original source is not in
\* SourceCache, process_frame records MissingOriginalCode without calling
\* fetch_file for that url and without incrementing fetch_count.
C30_OriginalSourceNeverFetched ==
    \A i \in NotInlined :
        /\ calls[i].exc = "none"
        /\ MissingOriginalCode(OriginalUrl(i)) \in Elems(calls[i].errors)
        /\ LogCount(calls[i].fetch_log_after, OriginalUrl(i))
              = LogCount(calls[i].fetch_log_before, OriginalUrl(i))
        /\ calls[i].count_after = calls[i].count_before

\* what the code does: get_sourceview hands the url to cache_source, which
\* counts it against the budget and fetches it when the budget allows; when
\* no source comes back the call ends in AttributeError (line 1228), and in
\* IndexError when the fetched source ends at the token's line
C30_OriginalSourceRequested ==
    \A i \in NotInlined :
        /\ OriginalUrl(i) \in calls[i].requested_after
        /\ calls[i].count_after = calls[i].count_before + 1
        /\ calls[i].count_after <= max_fetches
              => LogCount(calls[i].fetch_log_after, OriginalUrl(i)) = 1
        /\ calls[i].exc \in {"AttributeError", "IndexError"}
        /\ calls[i].exc = "AttributeError"
              <=> IsNone(SC_Get(sourceview_cache, OriginalUrl(i)))

\* the calls whose source-map lookup raised: a view was loaded for the
\* frame's file and lookup raises at the frame's position
LookupRaised ==
    {i \in 1..Len(calls) :
        /\ ReachesPrecheck(frames[calls[i].idx])
        /\ ~Precheck(frames[calls[i].idx])
        /\ ~IsNone(MapViewOf(i))
        /\ MapLookup(Val(MapViewOf(i)), Val(frames[calls[i].idx].lineno) - 1,
                     Val(frames[calls[i].idx].colno) - 1).outcome = "raise"}

InvalidStackframeLocation(u) == Error("js_invalid_stackframe_location", u)

SameLocation(f, g) ==
    /\ f.abs_path = g.abs_path
    /\ f.lineno = g.lineno
    /\ f.colno = g.colno
    /\ f.function = g.function
    /\ f.filename = g.filename
    /\ f.in_app = g.in_app

\* C31: when the source-map lookup raises, process_frame records an
\* InvalidStackframeLocation error, stores token = None in the frame's
\* scratch data and returns a frame whose abs_path, lineno, colno, function,
\* filename and in_app are the incoming frame's, with the data.sourcemap
\* label added.
C31_LookupFailureKeepsFrame ==
    \A i \in LookupRaised :
        /\ calls[i].exc = "none"
        /\ calls[i].returned = "triple"
        /\ InvalidStackframeLocation(Val(frames[calls[i].idx].abs_path)) \in Elems(calls[i].errors)
        /\ calls[i].token_set
        /\ IsNone(calls[i].token)
        /\ ~IsNone(calls[i].new_frames)
        /\ SameLocation(NewFrame(i), frames[calls[i].idx])
        /\ NewFrame(i).data_sourcemap
              = Some(SourcemapLabel(Val(frames[calls[i].idx].abs_path),
                                    Val(SMC_GetLink(sourcemap_cache, Val(frames[calls[i].idx].abs_path)).url)))

\* the lookup raised and the raw frame could be expanded
C31_Witness ==
    \E i \in LookupRaised :
        /\ calls[i].exc = "none"
        /\ ~IsNone(calls[i].new_frames)
        /\ NewFrame(i).abs_path = Some(U_A)
        /\ IsNone(frame_data[calls[i].idx].token)

\* the returned frame is as claimed whenever the call returns; the call
\* returns exactly when expanding the raw frame does not fail
C31_LookupFailureWhenRawExpands ==
    \A i \in LookupRaised :
        /\ calls[i].token_set
        /\ IsNone(calls[i].token)
        /\ calls[i].exc = "none" <=> RawExpansion(i).exc = "none"
        /\ RawExpansion(i).exc = "BadSource" => calls[i].exc = "UnboundLocalError"
        /\ calls[i].exc = "none" =>
              /\ InvalidStackframeLocation(Val(frames[calls[i].idx].abs_path)) \in Elems(calls[i].errors)
              /\ SameLocation(NewFrame(i), frames[calls[i].idx])

\* the calls the precheck of lines 987-1012 is made for
Prechecked == {i \in 1..Len(calls) : ReachesPrecheck(frames[calls[i].idx])}

\* call i returned (None, None, errors) with an error of type t as the last
\* one, and looked up or fetched nothing
RejectedWith(i, t) ==
    /\ calls[i].exc = "none"
    /\ calls[i].returned = "triple"
    /\ IsNone(calls[i].new_frames)
    /\ IsNone(calls[i].raw_frames)
    /\ Len(calls[i].errors) > 0
    /\ calls[i].errors[Len(calls[i].errors)]
          = Error(t, expose_url(Val(frames[calls[i].idx].abs_path)))
    /\ ~calls[i].token_set
    /\ calls[i].count_after = calls[i].count_before
    /\ calls[i].fetch_log_after = calls[i].fetch_log_before
    /\ calls[i].requested_after = calls[i].requested_before

\* C32: a frame whose lineno or colno is absent is rejected with
\* MissingRowOrColumn, one whose lineno or colno is present but 0 or
\* negative with InvalidRowOrColumn; the result is (None, None, errors) and
\* no source lookup, map lookup or fetch follows.
C32_PrecheckByPresence ==
    \A i \in Prechecked :
        /\ (IsNone(frames[calls[i].idx].lineno) \/ IsNone(frames[calls[i].idx].colno))
              => RejectedWith(i, "js_missing_row_or_column")
        /\ (/\ ~IsNone(frames[calls[i].idx].lineno)
            /\ ~IsNone(frames[calls[i].idx].colno)
            /\ (Val(frames[calls[i].idx].lineno) <= 0 \/ Val(frames[calls[i].idx].colno) <= 0))
              => RejectedWith(i, "js_invalid_row_or_column")

\* what the code does: 0 is falsy, so a lineno or colno of 0 is reported as
\* missing; only negative values are reported as invalid
C32_PrecheckByTruthiness ==
    \A i \in Prechecked :
        /\ (~NumTruthy(frames[calls[i].idx].lineno) \/ ~NumTruthy(frames[calls[i].idx].colno))
              => RejectedWith(i, "js_missing_row_or_column")
        /\ (/\ NumTruthy(frames[calls[i].idx].lineno)
            /\ NumTruthy(frames[calls[i].idx].colno)
            /\ (Val(frames[calls[i].idx].lineno) < 0 \/ Val(frames[calls[i].idx].colno) < 0))
              => RejectedWith(i, "js_invalid_row_or_column")

\* the returned frames whose context_line is the one the frame came with:
\* no expansion of the mapped frame populated it during the call
ContextNotPopulated ==
    {i \in ReturnedFrames : NewFrame(i).context_line = frames[calls[i].idx].context_line}

\* C33: the returned error list is emptied only if the mapped frame's
\* context_line was populated by a context expansion during the call; a
\* context_line already present on the incoming frame never causes the
\* recorded errors to be discarded.
C33_ErrorsKeptWithoutExpansion ==
    \A i \in ContextNotPopulated : Elems(calls[i].errors_before) \subseteq Elems(calls[i].errors)

\* what the code does: whatever put it there, a non-empty context_line on
\* the mapped frame empties the error list
C33_ErrorsDroppedOnAnyContextLine ==
    \A i \in ReturnedFrames :
        IF Truthy(NewFrame(i).context_line) THEN calls[i].errors = <<>>
        ELSE Elems(calls[i].errors_before) \subseteq Elems(calls[i].errors)

\* the cache writes of the last fetch_file call that were skipped because
\* the value is above the size limit, by the kind of key
SkippedWrites(keys) ==
    {i \in 1..Len(file_call.ops) :
        /\ file_call.ops[i].op = "set"
        /\ file_call.ops[i].key \in keys
        /\ file_call.ops[i].n > CACHE_MAX_VALUE_SIZE}

ContentKeys == {ContentKey(u) : u \in ArtUrls}

WebKeys == {WebscrapingCacheKey(u) : u \in ArtUrls}

FileReturned ==
    /\ file_call.exc = "none"
    /\ ~IsNone(file_call.result)
    /\ Val(file_call.result).status = 200

\* C34: when a cache write is skipped because the value exceeds the size
\* limit, the fetch that produced the value, artifact read or web scrape,
\* still returns the fetched result and raises no error.
C34_SkippedWriteStillReturns ==
    (SkippedWrites(ContentKeys) # {} \/ SkippedWrites(WebKeys) # {}) => FileReturned

\* C34 as the code has it: after a skipped write the artifact read returns
\* the fetched result; the web scrape reads the entry back, finds none,
\* locks the domain and fails with JS_TOO_LARGE
C34_SkippedWriteReturnsOrTooLarge ==
    /\ SkippedWrites(ContentKeys) # {} => FileReturned
    /\ SkippedWrites(WebKeys) # {}
          => /\ file_call.exc = "js_too_large"
             /\ IsNone(file_call.result)
             /\ \E i \in 1..Len(file_call.ops) : file_call.ops[i].op = "lock_domain"
             /\ file_cache[WebscrapingCacheKey(file_call.url)] = None

\* a web answer too large for the cache
C34_Witness == SkippedWrites(WebKeys) # {} /\ file_call.exc = "js_too_large"

\* an artifact too large for the cache
C34_WitnessArtifact == SkippedWrites(ContentKeys) # {} /\ FileReturned

AgeReturned == ~IsNone(age_out)

\* the max-age the headers carry, None when Cache-Control is absent or has
\* no max-age directive
MaxAgeOf(headers) ==
    IF IsNone(headers.cache_control) THEN None
    ELSE CacheControlSearch(Val(headers.cache_control))

\* C35: get_max_age returns a TTL in [60, 7200] for every header set: 60
\* when Cache-Control is absent or has no max-age, otherwise the max-age
\* value clamped to that range.
C35_MaxAgeClamped ==
    AgeReturned =>
        /\ Val(age_out) >= 60
        /\ Val(age_out) <= 7200
        /\ IsNone(MaxAgeOf(age_in)) => Val(age_out) = 60
        /\ ~IsNone(MaxAgeOf(age_in)) =>
              Val(age_out) = (IF Val(MaxAgeOf(age_in)) < 60 THEN 60
                              ELSE IF Val(MaxAgeOf(age_in)) > 7200 THEN 7200
                              ELSE Val(MaxAgeOf(age_in)))

\* a max-age above the range, after another directive
C35_Witness ==
    /\ AgeReturned
    /\ age_in.cache_control = Some(<<Directive("public", -1), Directive("max-age", 86400)>>)
    /\ age_out = Some(7200)

C35_WitnessLow ==
    /\ AgeReturned
    /\ age_in.cache_control = Some(<<Directive("max-age", 1)>>)
    /\ age_out = Some(60)

C35_WitnessInside ==
    /\ AgeReturned
    /\ MaxAgeOf(age_in) = Some(3600)
    /\ age_out = Some(3600)

\* the reads of the web-scraping cache and the requests to the HTTP fetcher
\* in the last fetch_file call
ScrapingOps ==
    {i \in 1..Len(file_call.ops) :
        \/ file_call.ops[i].op = "http"
        \/ file_call.ops[i].op = "get" /\ file_call.ops[i].key \in WebKeys}

\* C36: scraping is allowed unless the organization option is False or the
\* project option is falsy (allowed when unset); when scraping is not
\* allowed fetch_file never reads the web-scraping cache and never calls the
\* HTTP fetcher, and it returns a result from the release artifacts or
\* fails with ScrapingDisabled; a url ending in "..." fails with
\* TruncatedUrl before any cache, store or network access.
C36_ScrapingPolicy ==
    /\ allow_scraping <=> ~(options.organization = "False" \/ options.project \in {"False", "0"})
    /\ (FileCalled /\ ~allow_scraping /\ ~IsTruncated(file_call.url)) =>
          /\ ScrapingOps = {}
          /\ \/ file_call.exc = "js_scraping_disabled" /\ IsNone(file_call.result)
             \/ /\ file_call.exc = "none"
                /\ ~IsNone(file_call.result)
                /\ ~IsNone(file_call.release)
                /\ OutsideReads(file_call.ops) # {} \/ \E i \in 1..Len(file_call.ops) : file_call.ops[i].op = "get"
    /\ (FileCalled /\ IsTruncated(file_call.url)) =>
          /\ file_call.exc = "js_truncated_url"
          /\ file_call.ops = <<>>

\* what holds instead: the call may also end in the AttributeError of the
\* archive lookup (C19), still without reading the web-scraping cache or
\* calling the HTTP fetcher
C36_ScrapingPolicyOrArchiveError ==
    /\ allow_scraping <=> ~(options.organization = "False" \/ options.project \in {"False", "0"})
    /\ (FileCalled /\ ~allow_scraping /\ ~IsTruncated(file_call.url)) =>
          /\ ScrapingOps = {}
          /\ \/ file_call.exc = "js_scraping_disabled" /\ IsNone(file_call.result)
             \/ file_call.exc = "AttributeError" /\ ~IsNone(file_call.release)
             \/ /\ file_call.exc = "none"
                /\ ~IsNone(file_call.result)
                /\ ~IsNone(file_call.release)
                /\ OutsideReads(file_call.ops) # {} \/ \E i \in 1..Len(file_call.ops) : file_call.ops[i].op = "get"
    /\ (FileCalled /\ IsTruncated(file_call.url)) =>
          /\ file_call.exc = "js_truncated_url"
          /\ file_call.ops = <<>>

\* the organization option 0 does not switch scraping off, the project
\* option does: a release artifact is returned, the web is not asked
C36_Witness ==
    /\ FileCalled
    /\ options = [organization |-> "0", project |-> "0"]
    /\ ~allow_scraping
    /\ file_call.exc = "none"
    /\ ~IsNone(file_call.result)

C36_WitnessDisabled ==
    /\ FileCalled
    /\ options.organization = "False"
    /\ file_call.exc = "js_scraping_disabled"
    /\ ~IsNone(file_call.release)

C36_WitnessTruncated ==
    /\ FileCalled
    /\ allow_scraping
    /\ file_call.url = URL_CUT
    /\ ~IsNone(file_call.release)
    /\ file_call.exc = "js_truncated_url"

C36_WitnessAllowed ==
    /\ FileCalled
    /\ options = [organization |-> "0", project |-> "True"]
    /\ ScrapingOps # {}

\* the frame is one populate_source_cache skips
SkippedByCollection(frame) ==
    \/ IsNone(frame.abs_path)
    \/ frame.abs_path = Some(U_ANON)
    \/ platform = "node" /\ Val(frame.abs_path)[1] # "app:"

\* the frame is one process_frame returns early on, before the pre-check
SkippedByProcessFrame(frame) ==
    \/ IsNone(frame.abs_path)
    \/ platform = "node" /\ Val(frame.abs_path)[1] \notin {"/", "app:", "webpack:"}

\* call i made no fetch attempt, consumed no budget and attached no error
NothingFetched(i) ==
    /\ calls[i].count_after = calls[i].count_before
    /\ calls[i].fetch_log_after = calls[i].fetch_log_before
    /\ calls[i].requested_after = calls[i].requested_before
    /\ calls[i].exc = "none"
    /\ calls[i].errors = <<>>

\* C37: a url the collection phase skips (frame without abs_path,
\* "<anonymous>", or on the node platform a path without the app: prefix)
\* is never fetched later in the run: process_frame on such a frame makes no
\* fetch attempt, does not consume fetch budget and attaches no fetch error.
C37_SkippedUrlNeverFetched ==
    /\ \A i \in 1..Len(calls) :
          SkippedByCollection(frames[calls[i].idx]) => NothingFetched(i)
    /\ \A j \in 1..Len(frames) :
          (SkippedByCollection(frames[j]) /\ ~IsNone(frames[j].abs_path)) =>
              /\ LogCount(fetch_log, Val(frames[j].abs_path)) = 0
              /\ Val(frames[j].abs_path) \notin requested

\* what holds instead: only the frames process_frame itself returns early
\* on are never fetched
C37_EarlyReturnNeverFetches ==
    /\ \A i \in 1..Len(calls) :
          SkippedByProcessFrame(frames[calls[i].idx]) => NothingFetched(i)
    /\ \A j \in 1..Len(frames) :
          (SkippedByProcessFrame(frames[j]) /\ ~IsNone(frames[j].abs_path)) =>
              /\ LogCount(fetch_log, Val(frames[j].abs_path)) = 0
              /\ Val(frames[j].abs_path) \notin requested

C37_WitnessEarlyReturn ==
    \E i \in 1..Len(calls) :
        /\ platform = "node"
        /\ frames[calls[i].idx].abs_path = Some(U_A)
        /\ NothingFetched(i)

\* a frame the collection skipped whose url process_frame hands to
\* cache_source
C37_WitnessFetchedLater ==
    \E i \in 1..Len(calls) :
        /\ SkippedByCollection(frames[calls[i].idx])
        /\ calls[i].count_after = calls[i].count_before + 1
        /\ Val(frames[calls[i].idx].abs_path) \in calls[i].requested_after \ calls[i].requested_before

DecidesInApp(path) ==
    \/ IsWebpack(path)
    \/ Len(path) > 0 /\ path[1] = "app:"
    \/ HasInnerSegment(path, "node_modules")

\* the returned calls that left in_app undecided
InAppUndecided ==
    {i \in ReturnedFrames : IsNone(calls[i].token) \/ ~DecidesInApp(OriginalPath(i))}

\* C39: in_app is tri-state and preserved when undecided: if no token was
\* obtained, or the resolved original path is neither webpack: nor app:
\* schemed nor contains /node_modules/, the returned new and raw frames have
\* the incoming frame's in_app (unset included); whenever in_app is decided,
\* the new frame and the raw frame receive the same value.
C39_InAppPreservedWhenUndecided ==
    /\ \A i \in InAppUndecided :
          /\ NewFrame(i).in_app = frames[calls[i].idx].in_app
          /\ ~IsNone(calls[i].raw_frames) =>
                Val(calls[i].raw_frames).in_app = frames[calls[i].idx].in_app
    /\ \A i \in ReturnedFrames \ InAppUndecided :
          /\ ~IsNone(NewFrame(i).in_app)
          /\ ~IsNone(calls[i].raw_frames) =>
                Val(calls[i].raw_frames).in_app = NewFrame(i).in_app

\* a frame that came with in_app = true and resolves to an http: path keeps it
C39_Witness ==
    \E i \in InAppUndecided :
        /\ ~IsNone(calls[i].token)
        /\ frames[calls[i].idx].in_app = Some(TRUE)
        /\ NewFrame(i).abs_path # frames[calls[i].idx].abs_path
        /\ NewFrame(i).in_app = Some(TRUE)
        /\ ~IsNone(calls[i].raw_frames)

\* no token: in_app = false is kept
C39_WitnessNoToken ==
    \E i \in InAppUndecided :
        /\ IsNone(calls[i].token)
        /\ frames[calls[i].idx].in_app = Some(FALSE)
        /\ NewFrame(i).in_app = Some(FALSE)

\* unset stays unset
C39_WitnessUnset ==
    \E i \in InAppUndecided :
        /\ ~IsNone(calls[i].token)
        /\ IsNone(frames[calls[i].idx].in_app)
        /\ IsNone(NewFrame(i).in_app)

\* decided against the incoming value, on both frames
C39_WitnessDecided ==
    \E i \in ReturnedFrames \ InAppUndecided :
        /\ frames[calls[i].idx].in_app = Some(FALSE)
        /\ NewFrame(i).in_app = Some(TRUE)
        /\ ~IsNone(calls[i].raw_frames)
        /\ Val(calls[i].raw_frames).in_app = Some(TRUE)
====
